---- MODULE Spec2Model ----
(***************************************************************************)
(* Pipeline orchestration engine of odace-standalone: the pipeline         *)
(* registry, the dependency resolver, the executor, the job/task tracker   *)
(* and the checkpoint store.                                               *)
(*                                                                         *)
(* Strings that the code builds or splits on "." (pipeline names, the      *)
(* "layer.name" dependency strings, the entries of `visited`) are modelled *)
(* as the sequence of their dot-separated segments: "silver.a" is          *)
(* <<"silver", "a">> and "a" is <<"a">>.  A layer value is one segment.    *)
(***************************************************************************)
EXTENDS Integers, Sequences, FiniteSets, TLC

VARIABLES
    pipelines,          \* PipelineRegistry._pipelines: layer -> registered entries, in insertion order
    dependencies,       \* PipelineRegistry._dependencies: full name -> dependency strings
    target,             \* the (layer, name) of the last direct _resolve_dependencies call
    resolved,           \* the outcome of the last direct _resolve_dependencies call
    execution_history,  \* PipelineExecutor.execution_history: run_id -> execution state
    current_job_id,     \* PipelineExecutor.current_job_id
    jobs,               \* the "jobs" collection of the document store: job_id -> job document
    tasks,              \* the "tasks" sub-collections: <<job_id, task_id>> -> task document
    uuids,              \* the number of uuid4() values handed out; the n-th value is n
    now,                \* the number of datetime.utcnow() readings; the n-th reading is n
    call,               \* the frame of the running orchestration request
    exec,               \* the frame of the running execute_pipeline call
    invoked,            \* history: the pipelines instantiated by execute_pipeline, in order
    task_writes,        \* history: the writes to task documents, in order
    checkpoint_manager, \* the module global _checkpoint_manager of app/utils/checkpoint.py
    checkpoints,        \* the Delta table at checkpoint_path: its rows, in write order
    new_files,          \* the last direct CheckpointManager.get_new_files call and its result
    bucket,             \* the objects under the source prefix of each bronze pipeline
    bronze_tables,      \* the target Delta table of each bronze pipeline: its batches
    bronze,             \* worker thread -> the frame of its BaseBronzePipeline.run call
    file_events,        \* history: the runs, the clears and the file reads, in order
    job_writes,         \* history: the writes to job documents, in order
    progress_call,      \* the last direct update_job_progress call: arguments, document before
    cancel_call,        \* the last cancel request: its job and its response
    registrations,      \* history: the register calls, in order
    clear_frame         \* the clear_checkpoints call in progress: its pipeline, the rows it read

regVars == <<pipelines, dependencies, registrations>>
resVars == <<target, resolved>>
storeVars == <<jobs, tasks, task_writes, job_writes>>
callVars == <<progress_call, cancel_call, clear_frame>>
execVars == <<execution_history, current_job_id, uuids, now, call, exec, invoked>>
ckptVars == <<checkpoint_manager, checkpoints, new_files, bucket, bronze_tables, bronze, file_events>>
\* everything of the engine but the clock
engineVars == <<pipelines, dependencies, target, resolved, execution_history, current_job_id,
                jobs, tasks, uuids, call, exec, invoked, task_writes, job_writes,
                progress_call, cancel_call, registrations, clear_frame>>
vars == <<pipelines, dependencies, target, resolved, execution_history, current_job_id,
          jobs, tasks, uuids, now, call, exec, invoked, task_writes,
          checkpoint_manager, checkpoints, new_files, bucket, bronze_tables, bronze, file_events,
          job_writes, progress_call, cancel_call, registrations, clear_frame>>

-----------------------------------------------------------------------------
(* Bounds of the model *)

\* longest dependency list of one registration
MaxDeps == 2
\* total number of dependency strings in one registry of the resolver runs
MaxEdges == 4
\* total number of dependency strings in one registry of the execute_with_dependencies runs
MaxChainEdges == 3
\* number of registered pipelines of one layer in the execute_full_pipeline runs
MaxPipelines == 2
\* number of file paths known to the direct checkpoint calls
MaxFiles == 3
\* longest candidate list of a direct get_new_files call
MaxCandidates == 3
\* number of direct mark_file_processed calls
MaxMarks == 2
\* number of objects that can appear under a source prefix
MaxSourceFiles == 2
\* number of BaseBronzePipeline.run calls
MaxRuns == 3
\* number of worker threads of asyncio.to_thread
MaxWorkers == 2
\* number of direct create_job calls
MaxJobs == 1
\* number of direct update_job_progress calls
MaxUpdates == 2
\* largest task count passed to a direct create_job or update_job_progress call
MaxTasks == 6
\* number of register calls
MaxRegisters == 3
\* last clock reading at which a direct execute_pipeline call can start
MaxClock == 3
\* number of run_ids in the history of the direct execute_pipeline calls
MaxHistory == 2

-----------------------------------------------------------------------------
(* app/core/models.py *)

PipelineLayer == {"bronze", "silver", "gold"}

-----------------------------------------------------------------------------
(* String helpers: what the f-strings, `in` and split do on segment lists *)

\* f"{layer.value}.{name}"
FullName(layer, name) == <<layer>> \o name

\* "." in dep
HasDot(dep) == Len(dep) >= 2

\* dep.split(".", 1)[0]
SplitLayer(dep) == dep[1]

\* dep.split(".", 1)[1]
SplitName(dep) == Tail(dep)

-----------------------------------------------------------------------------
(* app/core/pipeline_registry.py *)

\* the registry before any register call
EmptyPipelines == [l \in PipelineLayer |-> <<>>]

RegisteredNames(layer) == {pipelines[layer][i].name : i \in 1..Len(pipelines[layer])}

\* PipelineRegistry.get_dependencies: the stored list, [] for an unknown pipeline
get_dependencies(layer, name) ==
    IF FullName(layer, name) \in DOMAIN dependencies
    THEN dependencies[FullName(layer, name)]
    ELSE <<>>

\* PipelineRegistry.get: the registered class, None for an unknown pipeline
NoClass == "<None>"

\* a lookup that finds a class for every name
GetAnyClass(layer, name) == "K1"

get(layer, name) ==
    IF layer \in DOMAIN pipelines /\ \E i \in 1..Len(pipelines[layer]) : pipelines[layer][i].name = name
    THEN pipelines[layer][CHOOSE i \in 1..Len(pipelines[layer]) : pipelines[layer][i].name = name].pipeline_class
    ELSE NoClass

\* PipelineRegistry.list_pipelines(layer): the names, in the order of the dict
list_pipelines(layer) == [i \in 1..Len(pipelines[layer]) |-> pipelines[layer][i].name]

\* a registration that adds an entry whether or not the name is known
RegisterAppends(registry, layer, name, pipeline_class) ==
    [registry EXCEPT ![layer] = Append(@, [name |-> name, pipeline_class |-> pipeline_class])]

\* PipelineRegistry.register: self._pipelines[layer_str][name] = pipeline_class;
\* a known name keeps its place in the dict and gets the new class
register(registry, layer, name, pipeline_class) ==
    IF \E i \in DOMAIN registry[layer] : registry[layer][i].name = name
    THEN [registry EXCEPT ![layer] =
            [i \in DOMAIN @ |-> IF @[i].name = name
                                 THEN [name |-> name, pipeline_class |-> pipeline_class]
                                 ELSE @[i]]]
    ELSE [registry EXCEPT ![layer] = Append(@, [name |-> name, pipeline_class |-> pipeline_class])]

\* dependencies=None
NoList == << <<"<None>">> >>

\* `dependencies or []`
OrEmpty(deps) == IF deps = NoList THEN <<>> ELSE deps

\* one register(layer, name, pipeline_class, dependencies) call
Register(layer, name, pipeline_class, deps) ==
    /\ Len(registrations) < MaxRegisters
    /\ pipelines' = register(pipelines, layer, name, pipeline_class)
    /\ dependencies' = [k \in DOMAIN dependencies \cup {FullName(layer, name)} |->
                            IF k = FullName(layer, name) THEN OrEmpty(deps)
                            ELSE dependencies[k]]
    /\ registrations' = Append(registrations,
                            [layer |-> layer, name |-> name, pipeline_class |-> pipeline_class,
                             dependencies |-> deps])
    /\ UNCHANGED <<callVars, ckptVars, resVars, storeVars, execVars>>

-----------------------------------------------------------------------------
(* app/core/pipeline_executor.py: _resolve_dependencies *)

NoError == [type |-> "", msg |-> "", arg |-> <<>>]

Return(v) == [raised |-> FALSE, error |-> NoError, value |-> v]

Raise(type, msg, arg) ==
    [raised |-> TRUE, error |-> [type |-> type, msg |-> msg, arg |-> arg], value |-> <<>>]

RECURSIVE UniqueFrom(_, _, _)
UniqueFrom(order, i, acc) ==
    IF i > Len(order) THEN acc
    ELSE IF \E j \in 1..Len(acc) : acc[j] = order[i]
         THEN UniqueFrom(order, i + 1, acc)
         ELSE UniqueFrom(order, i + 1, Append(acc, order[i]))

\* a resolver that forgets to remove the duplicates
UniqueOrderKeepAll(execution_order) == execution_order

\* "Remove duplicates while preserving order": the first occurrence stays
UniqueOrder(execution_order) == UniqueFrom(execution_order, 1, <<>>)

RECURSIVE _resolve_dependencies(_, _, _)
RECURSIVE ResolveEach(_, _, _, _)

\* the `for dep in dependencies` loop, from the i-th dependency on; every
\* recursive call gets its own copy of `visited`
ResolveEach(deps, i, visited, execution_order) ==
    IF i > Len(deps) THEN Return(execution_order)
    ELSE IF ~HasDot(deps[i]) THEN ResolveEach(deps, i + 1, visited, execution_order)
    ELSE IF SplitLayer(deps[i]) \notin PipelineLayer
         THEN Raise("ValueError", "is not a valid PipelineLayer", <<SplitLayer(deps[i])>>)
    ELSE LET sub_deps == _resolve_dependencies(SplitLayer(deps[i]), SplitName(deps[i]), visited)
         IN  IF sub_deps.raised THEN sub_deps
             ELSE ResolveEach(deps, i + 1, visited, execution_order \o sub_deps.value)

\* a resolver that ends the recursion at a repeated pipeline without raising
ResolveCycleReturnsEmpty(layer, name, visited) ==
    IF FullName(layer, name) \in visited
    THEN Return(<<>>)
    ELSE LET loop == ResolveEach(get_dependencies(layer, name), 1,
                                 visited \cup {FullName(layer, name)}, <<>>)
         IN  IF loop.raised THEN loop
             ELSE Return(UniqueOrder(Append(loop.value, <<layer, name>>)))

_resolve_dependencies(layer, name, visited) ==
    IF FullName(layer, name) \in visited
    THEN Raise("ValueError", "Circular dependency detected", FullName(layer, name))
    ELSE LET loop == ResolveEach(get_dependencies(layer, name), 1,
                                 visited \cup {FullName(layer, name)}, <<>>)
         IN  IF loop.raised THEN loop
             ELSE Return(UniqueOrder(Append(loop.value, <<layer, name>>)))

-----------------------------------------------------------------------------
(* Python values *)

\* None, for an optional string
None == "<None>"
\* a key that a result dict does not have
Missing == "<missing>"
\* None, for an optional datetime: utcnow() readings start at 1
NoTime == 0
\* None, for an optional id: uuid4() values start at 1
NoId == 0
\* None, for an optional count
NoCount == -1

\* store[key] = value, creating the key when it is new
Put(store, key, value) == [k \in DOMAIN store \cup {key} |-> IF k = key THEN value ELSE store[k]]

EmptyMap == [k \in {} |-> 0]

-----------------------------------------------------------------------------
(* app/core/job_manager.py *)

\* completed / total * 100 as the fraction <<numerator, denominator>>
Percent(completed, total) == <<completed * 100, total>>

\* 0.0
ZeroPercent == <<0, 1>>

\* a creation that stores the job as already running
CreateJobAsRunning(store, job_id, job_name, total_tasks, started_at) ==
    Put(store, job_id,
        [job_id |-> job_id, job_name |-> job_name, status |-> "running",
         started_at |-> started_at, completed_at |-> NoTime, total_tasks |-> total_tasks,
         completed_tasks |-> 0, failed_tasks |-> 0, progress_percent |-> ZeroPercent])

\* JobManager.create_job: the stored document; job_id and started_at are the caller's readings
create_job(store, job_id, job_name, total_tasks, started_at) ==
    Put(store, job_id,
        [job_id |-> job_id, job_name |-> job_name, status |-> "pending",
         started_at |-> started_at, completed_at |-> NoTime, total_tasks |-> total_tasks,
         completed_tasks |-> 0, failed_tasks |-> 0, progress_percent |-> ZeroPercent])

\* a variant of the updates that divides by the stored total_tasks only
JobUpdatesStoredTotal(job_data, status, total_tasks, completed_tasks, failed_tasks, completed_at) ==
    [job_data EXCEPT
        !.status = IF status # None THEN status ELSE @,
        !.total_tasks = IF total_tasks # NoCount THEN total_tasks ELSE @,
        !.completed_tasks = IF completed_tasks # NoCount THEN completed_tasks ELSE @,
        !.progress_percent = IF completed_tasks # NoCount /\ job_data.total_tasks > 0
                             THEN Percent(completed_tasks, job_data.total_tasks) ELSE @,
        !.failed_tasks = IF failed_tasks # NoCount THEN failed_tasks ELSE @,
        !.completed_at = IF completed_at # NoTime THEN completed_at ELSE @]

\* the `updates` dict of update_job_progress applied to the stored document
JobUpdates(job_data, status, total_tasks, completed_tasks, failed_tasks, completed_at) ==
    LET total == IF total_tasks # NoCount THEN total_tasks ELSE job_data.total_tasks
    IN  [job_data EXCEPT
            !.status = IF status # None THEN status ELSE @,
            !.total_tasks = IF total_tasks # NoCount THEN total_tasks ELSE @,
            !.completed_tasks = IF completed_tasks # NoCount THEN completed_tasks ELSE @,
            !.progress_percent = IF completed_tasks # NoCount /\ total > 0
                                 THEN Percent(completed_tasks, total) ELSE @,
            !.failed_tasks = IF failed_tasks # NoCount THEN failed_tasks ELSE @,
            !.completed_at = IF completed_at # NoTime THEN completed_at ELSE @]

\* JobManager.update_job_progress: nothing is written for an unknown job
update_job_progress(store, job_id, status, total_tasks, completed_tasks, failed_tasks, completed_at) ==
    IF job_id \notin DOMAIN store THEN store
    ELSE [store EXCEPT ![job_id] =
            JobUpdates(store[job_id], status, total_tasks, completed_tasks, failed_tasks, completed_at)]

\* JobManager.add_task: set() of the task document
add_task(store, job_id, task) == Put(store, <<job_id, task.task_id>>, task)

\* an update that never reaches the stored document
UpdateTaskDropped(store, job_id, task) == store

\* JobManager.update_task: update() of the task document with every field of the task
update_task(store, job_id, task) == Put(store, <<job_id, task.task_id>>, task)

\* the history entry of one write of a job document: what the document holds after it
JobWrite(store, job_id) ==
    [job_id |-> job_id, status |-> store[job_id].status,
     completed_tasks |-> store[job_id].completed_tasks,
     failed_tasks |-> store[job_id].failed_tasks]

\* the history entry of one write of a task document
TaskWrite(job_id, task) == [job_id |-> job_id, task_id |-> task.task_id, status |-> task.status]

-----------------------------------------------------------------------------
(* The runnable: what pipeline_class() and pipeline.run(force) can do *)

\* state.result before the run returns
NoResult == [is_dict |-> FALSE, status |-> Missing, message |-> Missing, error |-> Missing]

ResultDict(status, message, error) ==
    [is_dict |-> TRUE, status |-> status, message |-> message, error |-> error]

\* the result dicts a run returns: success, a dict without "status", failed
\* with and without "error", partial (BaseBronzePipeline.run with errors)
Results ==
    {ResultDict("success", "done", Missing),
     ResultDict(Missing, Missing, Missing),
     ResultDict("failed", "Pipeline failed: boom", "boom"),
     ResultDict("failed", Missing, Missing),
     ResultDict("partial", "Processed 1 files with 1 errors", Missing)}

\* the outcomes of instantiating and running a pipeline: the constructor
\* raises, run raises (with a message or with none), run returns a dict, run
\* returns something that has no get()
Outcomes ==
    {[kind |-> "ctor_raise", text |-> "ctor boom", result |-> NoResult],
     [kind |-> "raise", text |-> "boom", result |-> NoResult],
     [kind |-> "raise", text |-> "", result |-> NoResult],
     [kind |-> "return", text |-> "", result |-> NoResult]}
    \cup {[kind |-> "return", text |-> "", result |-> r] : r \in Results}

\* dict.get(key, default)
Get(value, default) == IF value = Missing THEN default ELSE value

-----------------------------------------------------------------------------
(* app/core/pipeline_executor.py: execute_pipeline *)

\* PipelineExecutionState.__init__
PipelineExecutionState(run_id, pipeline_name, layer) ==
    [run_id |-> run_id, pipeline_name |-> pipeline_name, layer |-> layer, status |-> "pending",
     started_at |-> NoTime, completed_at |-> NoTime, result |-> NoResult, error |-> None]

\* Task(task_id=run_id, ..., status=PENDING, started_at=...)
Task(task_id, pipeline_name, layer, started_at) ==
    [task_id |-> task_id, pipeline_name |-> pipeline_name, layer |-> layer, status |-> "pending",
     started_at |-> started_at, completed_at |-> NoTime, message |-> "", error |-> None,
     stats |-> NoResult]

ExecIdle ==
    [pc |-> "idle", run_id |-> NoId, layer |-> "", name |-> <<>>, force |-> FALSE,
     job_id |-> NoId, task |-> Task(NoId, <<>>, "", NoTime)]

NotFoundError == "Pipeline not found"

\* the state of a pipeline that is not registered (lines 154-156)
StateNotFound(state) == [state EXCEPT !.status = "failed", !.error = NotFoundError]

\* a not-found branch that fails the task without an error text
TaskNotFoundNoError(task, completed_at) ==
    [task EXCEPT !.status = "failed", !.completed_at = completed_at]

\* the task of a pipeline that is not registered (lines 160-163)
TaskNotFound(task, completed_at) ==
    [task EXCEPT !.status = "failed", !.error = NotFoundError, !.completed_at = completed_at]

\* execute_pipeline up to its first await (lines 134-176): the state and the
\* pending task are created; an unknown pipeline fails at once, a known one
\* is set running and is about to be instantiated and run
execute_pipeline(layer, name, force, run_id_arg, job_id) ==
    LET run_id == IF run_id_arg = NoId THEN uuids + 1 ELSE run_id_arg
        state == PipelineExecutionState(run_id, name, layer)
        t0 == IF job_id # NoId THEN now + 1 ELSE now
        task == Task(run_id, name, layer, t0)
        tasks0 == IF job_id # NoId THEN add_task(tasks, job_id, task) ELSE tasks
        writes0 == IF job_id # NoId THEN Append(task_writes, TaskWrite(job_id, task))
                   ELSE task_writes
    IN  /\ uuids' = IF run_id_arg = NoId THEN uuids + 1 ELSE uuids
        /\ IF get(layer, name) = NoClass
           THEN LET t1 == IF job_id # NoId THEN t0 + 1 ELSE t0
                    failed == TaskNotFound(task, t1)
                IN  /\ execution_history' = Put(execution_history, run_id, StateNotFound(state))
                    /\ now' = t1
                    /\ tasks' = IF job_id # NoId THEN update_task(tasks0, job_id, failed) ELSE tasks0
                    /\ task_writes' = IF job_id # NoId
                                      THEN Append(writes0, TaskWrite(job_id, failed)) ELSE writes0
                    /\ exec' = [pc |-> "returned", run_id |-> run_id, layer |-> layer,
                                name |-> name, force |-> force, job_id |-> job_id, task |-> failed]
           ELSE LET running == [task EXCEPT !.status = "running"]
                IN  /\ execution_history' = Put(execution_history, run_id,
                            [state EXCEPT !.status = "running", !.started_at = t0 + 1])
                    /\ now' = t0 + 1
                    /\ tasks' = IF job_id # NoId THEN update_task(tasks0, job_id, running) ELSE tasks0
                    /\ task_writes' = IF job_id # NoId
                                      THEN Append(writes0, TaskWrite(job_id, running)) ELSE writes0
                    /\ exec' = [pc |-> "await_run", run_id |-> run_id, layer |-> layer,
                                name |-> name, force |-> force, job_id |-> job_id, task |-> running]

\* the text of the exception that reaches `except Exception as e`, None when
\* the try block completes
RaisedText(outcome) ==
    IF outcome.kind \in {"ctor_raise", "raise"} THEN outcome.text
    ELSE IF ~outcome.result.is_dict THEN "object has no attribute 'get'"
    ELSE None

\* a mapping that lets a partial result count as a success
MapStatusPartialSucceeds(result_status) ==
    IF result_status = "failed" THEN "failed" ELSE "success"

\* "Map result status to pipeline/task status"
MapStatus(result_status) ==
    IF result_status = "failed" THEN "failed"
    ELSE IF result_status = "partial" THEN "failed"
    ELSE "success"

\* an except branch that marks the state failed and forgets the exception text
StateOnExceptionNoText(state, text, completed_at) ==
    [state EXCEPT !.status = "failed", !.completed_at = completed_at]

\* the state after `except Exception as e` (lines 212-214)
StateOnException(state, text, completed_at) ==
    [state EXCEPT !.status = "failed", !.error = text, !.completed_at = completed_at]

\* an except branch that stores the error and leaves the task status alone
TaskOnExceptionStaysRunning(task, text, completed_at) ==
    [task EXCEPT !.error = text, !.completed_at = completed_at]

\* the task after `except Exception as e` (lines 218-221)
TaskOnException(task, text, completed_at) ==
    [task EXCEPT !.status = "failed", !.error = text, !.completed_at = completed_at]

\* the state after the run returned `result` (lines 184-197)
StateOnResult(state, result, completed_at) ==
    [state EXCEPT !.status = MapStatus(Get(result.status, "success")), !.result = result,
                  !.completed_at = completed_at]

\* a result branch that stores the result and leaves the task running
TaskOnResultStaysRunning(task, result, completed_at) ==
    [task EXCEPT !.completed_at = completed_at,
                 !.message = Get(result.message, ""),
                 !.stats = result]

\* the task after the run returned `result` (lines 201-206)
TaskOnResult(task, result, completed_at) ==
    [task EXCEPT !.status = MapStatus(Get(result.status, "success")),
                 !.completed_at = completed_at,
                 !.message = Get(result.message, ""),
                 !.error = IF Get(result.status, "success") = "failed"
                           THEN Get(result.error, None) ELSE None,
                 !.stats = result]

\* pipeline_class() and the awaited pipeline.run(force) end with `outcome`;
\* execute_pipeline maps it to the terminal state and task (lines 178-226)
PipelineRun(outcome) ==
    /\ exec.pc = "await_run"
    /\ LET state == execution_history[exec.run_id]
           final_state == IF RaisedText(outcome) # None
                          THEN StateOnException(state, RaisedText(outcome), now + 1)
                          ELSE StateOnResult(state, outcome.result, now + 1)
           final_task == IF RaisedText(outcome) # None
                         THEN TaskOnException(exec.task, RaisedText(outcome), now + 1)
                         ELSE TaskOnResult(exec.task, outcome.result, now + 1)
       IN  /\ execution_history' = [execution_history EXCEPT ![exec.run_id] = final_state]
           /\ now' = now + 1
           /\ tasks' = IF exec.job_id # NoId THEN update_task(tasks, exec.job_id, final_task)
                       ELSE tasks
           /\ task_writes' = IF exec.job_id # NoId
                             THEN Append(task_writes, TaskWrite(exec.job_id, final_task))
                             ELSE task_writes
           /\ exec' = [exec EXCEPT !.pc = "returned", !.task = final_task]
           /\ invoked' = Append(invoked, [layer |-> exec.layer, name |-> exec.name,
                                          run_id |-> exec.run_id, job_id |-> exec.job_id,
                                          force |-> exec.force, outcome |-> outcome])
    /\ UNCHANGED <<callVars, ckptVars, regVars, resVars, jobs, job_writes, uuids, call, current_job_id>>

\* a direct call of execute_pipeline(layer, name, force, run_id, job_id),
\* after any earlier call has returned
ExecutePipeline(layer, name, force, run_id, job_id) ==
    /\ call.op = "idle"
    /\ exec.pc \in {"idle", "returned"}
    /\ now <= MaxClock
    /\ Cardinality(DOMAIN execution_history
                    \cup {IF run_id = NoId THEN uuids + 1 ELSE run_id}) <= MaxHistory
    /\ execute_pipeline(layer, name, force, run_id, job_id)
    /\ UNCHANGED <<callVars, ckptVars, regVars, resVars, jobs, job_writes, current_job_id, call,
                   invoked>>

-----------------------------------------------------------------------------
(* app/core/pipeline_executor.py: execute_with_dependencies, and its caller *)
(* run_silver_pipeline of app/api/routes/silver.py                          *)

CallIdle ==
    [op |-> "idle", pc |-> "idle", layer |-> "", name |-> <<>>, force |-> FALSE,
     job_id |-> NoId, bronze_only |-> FALSE, silver_only |-> FALSE, order |-> <<>>, i |-> 1,
     results |-> <<>>, completed |-> 0, failed |-> 0, error |-> NoError]

\* the status of the i-th returned state
StatusOf(run_id) == execution_history[run_id].status

CountStatus(results, status) == Cardinality({i \in 1..Len(results) : StatusOf(results[i]) = status})

\* the start of execute_with_dependencies (lines 247-259): the order is
\* resolved before anything runs; a ValueError of the resolver is re-raised
EnterWithDependencies(layer, name, force, job_id) ==
    LET execution_order == _resolve_dependencies(layer, name, {})
    IN  call' = [CallIdle EXCEPT
                    !.op = "execute_with_dependencies",
                    !.pc = IF execution_order.raised THEN "raised" ELSE "loop",
                    !.layer = layer, !.name = name, !.force = force, !.job_id = job_id,
                    !.order = execution_order.value, !.error = execution_order.error]

\* execute_with_dependencies(layer, name, force) called without a job
execute_with_dependencies(layer, name, force) ==
    /\ call.op = "idle"
    /\ EnterWithDependencies(layer, name, force, NoId)
    /\ UNCHANGED <<callVars, ckptVars, regVars, resVars, storeVars, execution_history, current_job_id, uuids, now,
                   exec, invoked>>

\* run_silver_pipeline (lines 33-52): a job of one task is created and set
\* running, then execute_with_dependencies is called with its id
run_silver_pipeline(pipeline_name, force) ==
    /\ call.op = "idle"
    /\ uuids' = uuids + 1
    /\ now' = now + 1
    /\ jobs' = update_job_progress(
                    create_job(jobs, uuids + 1, FullName("silver", pipeline_name), 1, now + 1),
                    uuids + 1, "running", NoCount, NoCount, NoCount, NoTime)
    /\ job_writes' = job_writes \o
            <<JobWrite(create_job(jobs, uuids + 1, FullName("silver", pipeline_name), 1, now + 1),
                       uuids + 1),
              JobWrite(jobs', uuids + 1)>>
    /\ EnterWithDependencies("silver", pipeline_name, force, uuids + 1)
    /\ UNCHANGED <<callVars, ckptVars, regVars, resVars, tasks, task_writes, execution_history, current_job_id,
                   exec, invoked>>

\* the loop of execute_with_dependencies calls execute_pipeline for the next entry
WithDependenciesNext ==
    /\ call.op = "execute_with_dependencies"
    /\ call.pc = "loop"
    /\ exec.pc = "idle"
    /\ execute_pipeline(call.order[call.i][1], call.order[call.i][2], call.force, NoId, call.job_id)
    /\ UNCHANGED <<callVars, ckptVars, regVars, resVars, jobs, job_writes, current_job_id, call, invoked>>

\* a loop that appends the state and goes on after a failed one
WithDependenciesAfterNoBreak ==
    /\ call.op = "execute_with_dependencies"
    /\ call.pc = "loop"
    /\ exec.pc = "returned"
    /\ call' = [call EXCEPT
                    !.results = Append(@, exec.run_id),
                    !.i = @ + 1,
                    !.pc = IF call.i = Len(call.order) THEN "returned" ELSE "loop"]
    /\ exec' = ExecIdle
    /\ UNCHANGED <<callVars, ckptVars, regVars, resVars, storeVars, execution_history, current_job_id, uuids, now,
                   invoked>>

\* execute_pipeline has returned: the state is appended, and the loop stops
\* at a failed state or after the last entry (lines 262-269)
WithDependenciesAfter ==
    /\ call.op = "execute_with_dependencies"
    /\ call.pc = "loop"
    /\ exec.pc = "returned"
    /\ call' = [call EXCEPT
                    !.results = Append(@, exec.run_id),
                    !.i = @ + 1,
                    !.pc = IF StatusOf(exec.run_id) = "failed" \/ call.i = Len(call.order)
                           THEN "returned" ELSE "loop"]
    /\ exec' = ExecIdle
    /\ UNCHANGED <<callVars, ckptVars, regVars, resVars, storeVars, execution_history, current_job_id, uuids, now,
                   invoked>>

\* execute_with_dependencies has returned its list; run_silver_pipeline
\* writes the final counts of the job (lines 54-76)
WithDependenciesReturn ==
    /\ call.op = "execute_with_dependencies"
    /\ call.pc = "returned"
    /\ call' = [call EXCEPT !.pc = "done"]
    /\ IF call.job_id # NoId /\ call.job_id \in DOMAIN jobs
       THEN /\ jobs' = update_job_progress(jobs, call.job_id,
                            IF CountStatus(call.results, "failed") > 0 THEN "failed" ELSE "success",
                            Len(call.results), CountStatus(call.results, "success"),
                            CountStatus(call.results, "failed"), now + 1)
            /\ job_writes' = Append(job_writes, JobWrite(jobs', call.job_id))
            /\ now' = now + 1
       ELSE UNCHANGED <<jobs, job_writes, now>>
    /\ UNCHANGED <<callVars, ckptVars, regVars, resVars, tasks, task_writes, execution_history, current_job_id,
                   uuids, exec, invoked>>

-----------------------------------------------------------------------------
(* app/core/pipeline_executor.py: execute_full_pipeline *)

JobName(bronze_only, silver_only) ==
    IF bronze_only THEN <<"Full Pipeline - Bronze Only">>
    ELSE IF silver_only THEN <<"Full Pipeline - Silver Only">>
    ELSE <<"Full Pipeline - Bronze -> Silver">>

\* a count that ignores the *_only flags
TotalTasksIgnoresFlags(bronze_only, silver_only) ==
    Len(list_pipelines("bronze")) + Len(list_pipelines("silver"))

\* "Count total tasks" (lines 298-307)
TotalTasks(bronze_only, silver_only) ==
    (IF ~silver_only THEN Len(list_pipelines("bronze")) ELSE 0)
    + (IF ~bronze_only THEN Len(list_pipelines("silver")) ELSE 0)

\* execute_full_pipeline up to its try block (lines 290-319): one job is
\* created with the task count and set running
execute_full_pipeline(bronze_only, silver_only, force) ==
    /\ call.op = "idle"
    /\ uuids' = uuids + 1
    /\ now' = now + 1
    /\ jobs' = update_job_progress(
                    create_job(jobs, uuids + 1, JobName(bronze_only, silver_only),
                               TotalTasks(bronze_only, silver_only), now + 1),
                    uuids + 1, "running", NoCount, NoCount, NoCount, NoTime)
    /\ job_writes' = job_writes \o
            <<JobWrite(create_job(jobs, uuids + 1, JobName(bronze_only, silver_only),
                                  TotalTasks(bronze_only, silver_only), now + 1), uuids + 1),
              JobWrite(jobs', uuids + 1)>>
    /\ current_job_id' = uuids + 1
    /\ call' = [CallIdle EXCEPT !.op = "execute_full_pipeline", !.pc = "bronze",
                                !.force = force, !.job_id = uuids + 1,
                                !.bronze_only = bronze_only, !.silver_only = silver_only]
    /\ UNCHANGED <<callVars, ckptVars, regVars, resVars, tasks, task_writes, execution_history, exec, invoked>>

\* "Run bronze layer" (lines 323-333): the next bronze pipeline is executed;
\* with silver_only, or after the last one, control reaches the silver layer
FullPipelineBronze ==
    /\ call.op = "execute_full_pipeline"
    /\ call.pc = "bronze"
    /\ exec.pc = "idle"
    /\ IF call.silver_only \/ call.i > Len(list_pipelines("bronze"))
       THEN /\ call' = [call EXCEPT !.pc = "silver", !.i = 1]
            /\ UNCHANGED <<tasks, task_writes, execution_history, uuids, now, exec>>
       ELSE /\ execute_pipeline("bronze", list_pipelines("bronze")[call.i], call.force, NoId,
                                call.job_id)
            /\ UNCHANGED call
    /\ UNCHANGED <<callVars, ckptVars, regVars, resVars, jobs, job_writes, current_job_id, invoked>>

\* a silver layer that runs whatever the bronze layer did
FullPipelineSilverAfterFailure ==
    /\ call.op = "execute_full_pipeline"
    /\ call.pc = "silver"
    /\ exec.pc = "idle"
    /\ IF call.bronze_only \/ call.i > Len(list_pipelines("silver"))
       THEN /\ call' = [call EXCEPT !.pc = "final"]
            /\ UNCHANGED <<tasks, task_writes, execution_history, uuids, now, exec>>
       ELSE /\ execute_pipeline("silver", list_pipelines("silver")[call.i], call.force, NoId,
                                call.job_id)
            /\ UNCHANGED call
    /\ UNCHANGED <<callVars, ckptVars, regVars, resVars, jobs, job_writes, current_job_id, invoked>>

\* "Run silver layer (only if no failures in bronze and not bronze_only)"
\* (lines 355-367); otherwise, or after the last one, the final status is next
FullPipelineSilver ==
    /\ call.op = "execute_full_pipeline"
    /\ call.pc = "silver"
    /\ exec.pc = "idle"
    /\ IF call.bronze_only \/ call.failed # 0 \/ call.i > Len(list_pipelines("silver"))
       THEN /\ call' = [call EXCEPT !.pc = "final"]
            /\ UNCHANGED <<tasks, task_writes, execution_history, uuids, now, exec>>
       ELSE /\ execute_pipeline("silver", list_pipelines("silver")[call.i], call.force, NoId,
                                call.job_id)
            /\ UNCHANGED call
    /\ UNCHANGED <<callVars, ckptVars, regVars, resVars, jobs, job_writes, current_job_id, invoked>>

\* a loop that breaks on a failed state before the progress is written
ProgressAfterSkipsFailure(store, job_id, completed, failed) ==
    IF failed > 0 THEN store
    ELSE update_job_progress(store, job_id, None, NoCount, completed, failed, NoTime)

\* the job progress written after one pipeline (lines 344-348 and 378-382)
ProgressAfter(store, job_id, completed, failed) ==
    update_job_progress(store, job_id, None, NoCount, completed, failed, NoTime)

\* a loop that goes on after a failed state
AfterPcNoBreak(pc, status) == pc

\* where the loop of a layer goes after a state of `status` (lines 351-352
\* and 385-386): a failed bronze pipeline leaves the bronze loop for the
\* silver check, a failed silver pipeline leaves for the final status
AfterPc(pc, status) ==
    IF status # "failed" THEN pc
    ELSE IF pc = "bronze" THEN "silver" ELSE "final"

\* execute_pipeline has returned inside a layer loop (lines 334-352 and
\* 368-386): the state is appended and counted, the job progress is written,
\* and a failed state breaks the loop
FullPipelineAfter ==
    /\ call.op = "execute_full_pipeline"
    /\ call.pc \in {"bronze", "silver"}
    /\ exec.pc = "returned"
    /\ LET status == StatusOf(exec.run_id)
           completed == IF status = "success" THEN call.completed + 1 ELSE call.completed
           failed == IF status = "failed" THEN call.failed + 1 ELSE call.failed
       IN  /\ jobs' = ProgressAfter(jobs, call.job_id, completed, failed)
           /\ job_writes' = Append(job_writes, JobWrite(jobs', call.job_id))
           /\ call' = [call EXCEPT
                          !.results = Append(@, exec.run_id),
                          !.completed = completed,
                          !.failed = failed,
                          !.i = IF status = "failed" THEN 1 ELSE @ + 1,
                          !.pc = AfterPc(call.pc, status)]
    /\ exec' = ExecIdle
    /\ UNCHANGED <<callVars, ckptVars, regVars, resVars, tasks, task_writes, execution_history, current_job_id,
                   uuids, now, invoked>>

\* a final status that does not look at the failures
FinalStatusAlwaysSuccess(failed) == "success"

\* "Determine final job status" (lines 388-400), then the finally block and the return
FinalStatus(failed) == IF failed > 0 THEN "failed" ELSE "success"

FullPipelineFinal ==
    /\ call.op = "execute_full_pipeline"
    /\ call.pc = "final"
    /\ jobs' = update_job_progress(jobs, call.job_id, FinalStatus(call.failed),
                                   NoCount, NoCount, NoCount, now + 1)
    /\ job_writes' = Append(job_writes, JobWrite(jobs', call.job_id))
    /\ now' = now + 1
    /\ current_job_id' = NoId
    /\ call' = [call EXCEPT !.pc = "done"]
    /\ UNCHANGED <<callVars, ckptVars, regVars, resVars, tasks, task_writes, execution_history, uuids, exec, invoked>>

-----------------------------------------------------------------------------
(* Direct calls of the job manager *)

\* progress_call before any direct update_job_progress call
NotUpdated ==
    [called |-> FALSE, n |-> 0, job_id |-> NoId, status |-> None, total_tasks |-> NoCount,
     completed_tasks |-> NoCount, failed_tasks |-> NoCount, existed |-> FALSE,
     before |-> [total_tasks |-> 0, progress_percent |-> ZeroPercent]]

\* a direct create_job(job_name, total_tasks) call
CreateJob(job_name, total_tasks) ==
    /\ uuids < MaxJobs
    /\ uuids' = uuids + 1
    /\ now' = now + 1
    /\ jobs' = create_job(jobs, uuids + 1, job_name, total_tasks, now + 1)
    /\ job_writes' = Append(job_writes, JobWrite(jobs', uuids + 1))
    /\ UNCHANGED <<ckptVars, regVars, resVars, tasks, task_writes, execution_history,
                   current_job_id, call, exec, invoked, callVars>>

\* a direct update_job_progress(job_id, status, total_tasks, completed_tasks, failed_tasks) call
UpdateJobProgress(job_id, status, total_tasks, completed_tasks, failed_tasks) ==
    /\ progress_call.n < MaxUpdates
    /\ jobs' = update_job_progress(jobs, job_id, status, total_tasks, completed_tasks,
                                   failed_tasks, NoTime)
    /\ job_writes' = IF job_id \in DOMAIN jobs
                        /\ <<status, total_tasks, completed_tasks, failed_tasks>>
                                # <<None, NoCount, NoCount, NoCount>>
                     THEN Append(job_writes, JobWrite(jobs', job_id))
                     ELSE job_writes
    /\ progress_call' =
            [called |-> TRUE, n |-> progress_call.n + 1, job_id |-> job_id, status |-> status,
             total_tasks |-> total_tasks, completed_tasks |-> completed_tasks,
             failed_tasks |-> failed_tasks, existed |-> job_id \in DOMAIN jobs,
             before |-> IF job_id \in DOMAIN jobs
                        THEN [total_tasks |-> jobs[job_id].total_tasks,
                              progress_percent |-> jobs[job_id].progress_percent]
                        ELSE NotUpdated.before]
    /\ UNCHANGED <<ckptVars, regVars, resVars, tasks, task_writes, execution_history,
                   current_job_id, uuids, now, call, exec, invoked, cancel_call,
                   clear_frame>>

-----------------------------------------------------------------------------
(* app/api/routes/jobs.py: cancel_job *)

\* the methods that class PipelineExecutor defines
ExecutorMethods ==
    {"__init__", "_resolve_dependencies", "execute_pipeline", "execute_with_dependencies",
     "execute_full_pipeline", "get_execution_state", "get_execution_history"}

\* cancel_call before any cancel request
NotCancelled ==
    [called |-> FALSE, job_id |-> NoId, was_running |-> FALSE, status_code |-> 0,
     detail |-> "", status_after |-> ""]

\* POST /api/jobs/{job_id}/cancel: executor.cancel_job(job_id) is looked up
\* on the PipelineExecutor instance; the AttributeError of a missing method is
\* caught by `except Exception` and answered with status 500
cancel_job(job_id) ==
    /\ "cancel_job" \notin ExecutorMethods
    /\ cancel_call' =
            [called |-> TRUE, job_id |-> job_id,
             was_running |-> job_id \in DOMAIN jobs /\ jobs[job_id].status = "running",
             status_code |-> 500,
             detail |-> "'PipelineExecutor' object has no attribute 'cancel_job'",
             status_after |-> IF job_id \in DOMAIN jobs THEN jobs[job_id].status ELSE ""]
    /\ UNCHANGED <<ckptVars, regVars, resVars, storeVars, execVars, progress_call, clear_frame>>

-----------------------------------------------------------------------------
(* app/utils/delta_ops.py: a Delta table is the sequence of its rows *)

\* nothing is stored at the table path
NoTable == "<no table>"

\* DeltaOperations.table_exists
table_exists(table) == table # NoTable

\* DeltaOperations.write_delta(df, path, mode) with matching schemas:
\* append adds the rows (creating the table), overwrite replaces them
write_delta(table, df, mode) ==
    IF mode = "append" /\ table_exists(table) THEN table \o df ELSE df

-----------------------------------------------------------------------------
(* app/utils/checkpoint.py *)

\* one row of the checkpoint table; a file_hash is a segment list, "" is <<>>
CheckpointEntry(pipeline_name, file_path, file_hash, processed_at, status, rows_processed) ==
    [pipeline_name |-> pipeline_name, file_path |-> file_path, file_hash |-> file_hash,
     processed_at |-> processed_at, status |-> status, rows_processed |-> rows_processed]

\* CheckpointManager._ensure_checkpoint_table; t is the clock reading of the _init row
_ensure_checkpoint_table(table, t) ==
    IF ~table_exists(table)
    THEN write_delta(table, <<CheckpointEntry(<<"_init">>, "_init", <<"_init">>, t, "_init", 0)>>,
                     "overwrite")
    ELSE table

\* get_checkpoint_manager: the table as the first call leaves it
get_checkpoint_manager(manager, table, t) ==
    IF manager = None THEN _ensure_checkpoint_table(table, t) ELSE table

\* the clock readings that get_checkpoint_manager takes
ManagerReadings(manager, table) == IF manager = None /\ ~table_exists(table) THEN 1 ELSE 0

\* a variant of get_processed_files that takes the entries of every status
ProcessedAnyStatus(table, pipeline_name) ==
    IF ~table_exists(table) THEN {}
    ELSE {table[i].file_path : i \in {j \in DOMAIN table : table[j].pipeline_name = pipeline_name}}

\* CheckpointManager.get_processed_files; read_delta raises when there is no
\* table, and the except branch returns set()
get_processed_files(table, pipeline_name) ==
    IF ~table_exists(table) THEN {}
    ELSE {table[i].file_path :
            i \in {j \in DOMAIN table : /\ table[j].pipeline_name = pipeline_name
                                        /\ table[j].status = "success"}}

\* a mark that writes its entry in overwrite mode
MarkFileProcessedOverwrite(table, pipeline_name, file_path, file_hash, rows_processed, status, t) ==
    write_delta(table,
                <<CheckpointEntry(pipeline_name, file_path, file_hash, t, status, rows_processed)>>,
                "overwrite")

\* CheckpointManager.mark_file_processed; t is its utcnow() reading
mark_file_processed(table, pipeline_name, file_path, file_hash, rows_processed, status, t) ==
    write_delta(table,
                <<CheckpointEntry(pipeline_name, file_path, file_hash, t, status, rows_processed)>>,
                "append")

\* a variant of get_new_files that keeps every candidate
GetNewFilesUnfiltered(table, pipeline_name, all_files) == all_files

\* CheckpointManager.get_new_files
get_new_files(table, pipeline_name, all_files) ==
    SelectSeq(all_files, LAMBDA f : f \notin get_processed_files(table, pipeline_name))

\* CheckpointManager.clear_checkpoints; read_delta raises when there is no
\* table, and the except branch leaves it so
\* a clear that keeps the _init row only
ClearEveryPipeline(table, pipeline_name) ==
    IF ~table_exists(table) THEN table
    ELSE write_delta(table, SelectSeq(table, LAMBDA e : e.pipeline_name = <<"_init">>),
                     "overwrite")

clear_checkpoints(table, pipeline_name) ==
    IF ~table_exists(table) THEN table
    ELSE write_delta(table, SelectSeq(table, LAMBDA e : e.pipeline_name # pipeline_name),
                     "overwrite")

\* new_files before any direct get_new_files call
NotAsked == [called |-> FALSE, pipeline_name |-> <<>>, all_files |-> <<>>, table |-> NoTable,
             value |-> <<>>]

\* the first get_checkpoint_manager() call of the process
GetCheckpointManager ==
    /\ checkpoint_manager = None
    /\ checkpoint_manager' = "CheckpointManager"
    /\ checkpoints' = get_checkpoint_manager(checkpoint_manager, checkpoints, now + 1)
    /\ now' = now + ManagerReadings(checkpoint_manager, checkpoints)
    /\ UNCHANGED <<engineVars, new_files, bucket, bronze_tables, bronze, file_events>>

\* a direct mark_file_processed(pipeline_name, file_path, file_hash, rows_processed, status) call
MarkFileProcessed(pipeline_name, file_path, file_hash, rows_processed, status) ==
    /\ checkpoint_manager # None
    \* the clock readings after the manager's own count the marks made so far
    /\ now < 1 + MaxMarks
    /\ checkpoints' = mark_file_processed(checkpoints, pipeline_name, file_path, file_hash,
                                          rows_processed, status, now + 1)
    /\ now' = now + 1
    /\ UNCHANGED <<engineVars, checkpoint_manager, new_files, bucket, bronze_tables, bronze,
                   file_events>>

\* clear_frame while no clear_checkpoints call is between its read and its write
ClearIdle == [pc |-> "idle", pipeline_name |-> <<>>, df |-> NoTable]

\* clear_checkpoints(pipeline_name) up to the end of read_delta (line 116);
\* without a table the read raises and the except branch ends the call
ClearRead(pipeline_name) ==
    /\ checkpoint_manager # None
    /\ clear_frame.pc = "idle"
    /\ clear_frame' = IF table_exists(checkpoints)
                      THEN [pc |-> "read", pipeline_name |-> pipeline_name, df |-> checkpoints]
                      ELSE ClearIdle
    /\ UNCHANGED <<regVars, resVars, storeVars, execVars, progress_call, cancel_call, ckptVars>>

\* the rest of that call (lines 118-123): the rows read, without those of
\* the pipeline, overwrite the table
ClearWrite ==
    /\ clear_frame.pc = "read"
    /\ checkpoints' = write_delta(checkpoints,
                            SelectSeq(clear_frame.df,
                                      LAMBDA e : e.pipeline_name # clear_frame.pipeline_name),
                            "overwrite")
    /\ clear_frame' = ClearIdle
    /\ UNCHANGED <<regVars, resVars, storeVars, execVars, progress_call, cancel_call,
                   checkpoint_manager, new_files, bucket, bronze_tables, bronze, file_events>>

\* a direct clear_checkpoints(pipeline_name) call
ClearCheckpoints(pipeline_name) ==
    /\ checkpoint_manager # None
    /\ checkpoints' = clear_checkpoints(checkpoints, pipeline_name)
    /\ UNCHANGED <<engineVars, now, checkpoint_manager, new_files, bucket, bronze_tables, bronze,
                   file_events>>

\* a direct get_new_files(pipeline_name, all_files) call
GetNewFiles(pipeline_name, all_files) ==
    /\ checkpoint_manager # None
    /\ new_files' = [called |-> TRUE, pipeline_name |-> pipeline_name, all_files |-> all_files,
                     table |-> checkpoints,
                     value |-> get_new_files(checkpoints, pipeline_name, all_files)]
    /\ UNCHANGED <<engineVars, now, checkpoint_manager, checkpoints, bucket, bronze_tables,
                   bronze, file_events>>

-----------------------------------------------------------------------------
(* app/pipelines/base.py: BaseBronzePipeline *)

\* the object names of a source prefix, in the order list_blobs returns them
ObjectNames == <<"f1", "f2", "f3", "f4", "f5">>

ObjectIndex(file_path) == CHOOSE i \in DOMAIN ObjectNames : ObjectNames[i] = file_path

\* GCSOperations.list_files(prefix)
list_files(objects) == SelectSeq(ObjectNames, LAMBDA f : f \in objects)

\* len(df) of read_source_file(file_path): the n-th object holds n - 1 rows
RowsOf(file_path) == ObjectIndex(file_path) - 1

\* BasePipeline._compute_file_hash
_compute_file_hash(file_path) == <<"md5", file_path>>

\* BaseBronzePipeline.get_write_mode
get_write_mode == "append"

\* a listing that is not filtered by the checkpoints
BronzeGetNewFilesAll(table, name, all_files, force) == all_files

\* BaseBronzePipeline.get_new_files(force)
BronzeGetNewFiles(table, name, all_files, force) ==
    IF force THEN all_files ELSE get_new_files(table, name, all_files)

\* BasePipeline.__init__: self.stats
NoStats == [files_processed |-> 0, rows_processed |-> 0, errors |-> <<>>]

BronzeIdle ==
    [pc |-> "idle", name |-> <<>>, force |-> FALSE, files_to_process |-> <<>>, i |-> 0,
     is_first_file |-> TRUE, stats |-> NoStats, result |-> NoResult]

\* the dict that run returns
BronzeResult(status, stats, errors, message) ==
    [is_dict |-> TRUE, status |-> status, files_processed |-> stats.files_processed,
     rows_processed |-> stats.rows_processed, errors |-> errors, message |-> message,
     error |-> Missing]

\* a run has started and listed all_files under its source prefix
RunEvent(name, force, all_files) ==
    [kind |-> "run", name |-> name, force |-> force, file_path |-> "", ok |-> FALSE,
     had_success |-> FALSE, all_files |-> all_files]

ClearEvent(name) ==
    [kind |-> "clear", name |-> name, force |-> TRUE, file_path |-> "", ok |-> FALSE,
     had_success |-> FALSE, all_files |-> <<>>]

ReadEvent(name, force, file_path, ok, had_success) ==
    [kind |-> "read", name |-> name, force |-> force, file_path |-> file_path, ok |-> ok,
     had_success |-> had_success, all_files |-> <<>>]

RunsStarted == Cardinality({i \in DOMAIN file_events : file_events[i].kind = "run"})

\* a new object appears under the source prefix of a pipeline
Upload(name, file_path) ==
    /\ file_path \notin bucket[name]
    /\ bucket' = [bucket EXCEPT ![name] = @ \cup {file_path}]
    /\ UNCHANGED <<engineVars, now, checkpoint_manager, checkpoints, new_files, bronze_tables,
                   bronze, file_events>>

\* pipeline_class() and the start of run(force) in worker w, up to the file
\* loop: the constructor gets the checkpoint manager, force clears the
\* checkpoints, the prefix is listed and filtered; without files run returns
BronzeRun(w, name, force) ==
    /\ bronze[w].pc \in {"idle", "returned"}
    /\ RunsStarted < MaxRuns
    /\ LET ensured == get_checkpoint_manager(checkpoint_manager, checkpoints, now + 1)
           table == IF force THEN clear_checkpoints(ensured, name) ELSE ensured
           files_to_process == BronzeGetNewFiles(table, name, list_files(bucket[name]), force)
       IN  /\ checkpoint_manager' = "CheckpointManager"
           /\ checkpoints' = table
           /\ now' = now + ManagerReadings(checkpoint_manager, checkpoints)
           /\ file_events' = file_events \o <<RunEvent(name, force, list_files(bucket[name]))>>
                                \o (IF force THEN <<ClearEvent(name)>> ELSE <<>>)
           /\ bronze' = [bronze EXCEPT ![w] =
                IF files_to_process = <<>>
                THEN [BronzeIdle EXCEPT
                        !.pc = "returned", !.name = name, !.force = force,
                        !.result = BronzeResult("success", NoStats, Missing,
                                                <<"No new files to process">>)]
                ELSE [BronzeIdle EXCEPT
                        !.pc = "files", !.name = name, !.force = force,
                        !.files_to_process = files_to_process, !.i = 1]]
    /\ UNCHANGED <<engineVars, new_files, bucket, bronze_tables>>

\* one iteration of the file loop of run in worker w: read_source_file
\* returns (readable) or raises
BronzeFile(w, readable) ==
    /\ bronze[w].pc = "files"
    /\ bronze[w].i <= Len(bronze[w].files_to_process)
    /\ LET frame == bronze[w]
           file_path == frame.files_to_process[frame.i]
           write_mode == IF frame.force /\ frame.is_first_file THEN "overwrite" ELSE get_write_mode
       IN  /\ file_events' = Append(file_events,
                    ReadEvent(frame.name, frame.force, file_path, readable,
                              file_path \in get_processed_files(checkpoints, frame.name)))
           /\ IF readable
              THEN /\ bronze_tables' = [bronze_tables EXCEPT ![frame.name] =
                        write_delta(@, <<[file_path |-> file_path, rows |-> RowsOf(file_path),
                                          ingestion_timestamp |-> now + 1]>>, write_mode)]
                   /\ checkpoints' = mark_file_processed(checkpoints, frame.name, file_path,
                                        _compute_file_hash(file_path), RowsOf(file_path),
                                        "success", now + 2)
                   /\ now' = now + 2
                   /\ bronze' = [bronze EXCEPT ![w] = [frame EXCEPT
                        !.i = @ + 1,
                        !.is_first_file = IF frame.force THEN FALSE ELSE @,
                        !.stats = [@ EXCEPT !.files_processed = @ + 1,
                                            !.rows_processed = @ + RowsOf(file_path)]]]
              ELSE /\ checkpoints' = mark_file_processed(checkpoints, frame.name, file_path,
                                        <<>>, 0, "failed", now + 1)
                   /\ now' = now + 1
                   /\ bronze' = [bronze EXCEPT ![w] = [frame EXCEPT
                        !.i = @ + 1,
                        !.stats = [@ EXCEPT !.errors =
                            Append(@, [file |-> file_path, error |-> "read boom"])]]]
                   /\ UNCHANGED bronze_tables
    /\ UNCHANGED <<engineVars, checkpoint_manager, new_files, bucket>>

\* the end of run in worker w, after the file loop
BronzeReturn(w) ==
    /\ bronze[w].pc = "files"
    /\ bronze[w].i > Len(bronze[w].files_to_process)
    /\ LET stats == bronze[w].stats
           result ==
               IF stats.errors # <<>>
               THEN BronzeResult("partial", stats, stats.errors,
                        <<"Processed", stats.files_processed, "files with",
                          Len(stats.errors), "errors">>)
               ELSE IF stats.files_processed = 0
               THEN BronzeResult("success", stats, stats.errors, <<"No new files to process">>)
               ELSE BronzeResult("success", stats, stats.errors,
                        <<"Successfully processed", stats.files_processed, "file(s),",
                          stats.rows_processed, "rows">>)
       IN  bronze' = [bronze EXCEPT ![w] = [@ EXCEPT !.pc = "returned", !.result = result]]
    /\ UNCHANGED <<engineVars, now, checkpoint_manager, checkpoints, new_files, bucket,
                   bronze_tables, file_events>>

-----------------------------------------------------------------------------
(* Registries of the resolver runs *)

NameA == <<"a">>
NameB == <<"b">>
NameC == <<"c">>

\* the bronze pipelines that have a source prefix and a target table
BronzeNames == {NameA, NameB}

\* the worker threads of asyncio.to_thread
Workers == 1..MaxWorkers

\* the class handle stored by register
Classes == {"K1", "K2"}

Entry(name, cls) == [name |-> name, pipeline_class |-> cls]

\* three registered silver pipelines; bronze.a is referenced but never registered
ResolveKeys == {FullName("silver", NameA), FullName("silver", NameB), FullName("silver", NameC)}

\* dependency strings: four of the form layer.name, "a" (no dot) and
\* "silver_v2.a" (a layer that PipelineLayer does not have)
ResolveDepStrings ==
    ResolveKeys \cup {FullName("bronze", NameA), <<"a">>, <<"silver_v2", "a">>}

IsInjective(s) == \A i, j \in DOMAIN s : i # j => s[i] # s[j]

\* dependency lists without repetition, up to n strings
DepLists(strings, n) ==
    UNION {{s \in [1..k -> strings] : IsInjective(s)} : k \in 0..n}

RECURSIVE DepMaps(_, _, _)
\* every assignment of a dependency list to each key, with at most `budget` strings in all
DepMaps(keys, strings, budget) ==
    IF keys = {} THEN {[k \in {} |-> <<>>]}
    ELSE LET key == CHOOSE k \in keys : TRUE
         IN  UNION {{m @@ (key :> l) : m \in DepMaps(keys \ {key}, strings, budget - Len(l))} :
                        l \in {x \in DepLists(strings, MaxDeps) : Len(x) <= budget}}

NotCalled == [called |-> FALSE, raised |-> FALSE, error |-> NoError, value |-> <<>>]

\* the executor, the tracker and the histories after construction
InitEngine ==
    /\ execution_history = EmptyMap
    /\ current_job_id = NoId
    /\ jobs = EmptyMap
    /\ tasks = EmptyMap
    /\ uuids = 0
    /\ now = 0
    /\ call = CallIdle
    /\ exec = ExecIdle
    /\ invoked = <<>>
    /\ task_writes = <<>>
    /\ checkpoint_manager = None
    /\ checkpoints = NoTable
    /\ new_files = NotAsked
    /\ bucket = [name \in BronzeNames |-> {}]
    /\ bronze_tables = [name \in BronzeNames |-> NoTable]
    /\ bronze = [w \in Workers |-> BronzeIdle]
    /\ file_events = <<>>
    /\ job_writes = <<>>
    /\ progress_call = NotUpdated
    /\ cancel_call = NotCancelled
    /\ registrations = <<>>
    /\ clear_frame = ClearIdle

InitResolve ==
    /\ pipelines = [EmptyPipelines EXCEPT
                        !["silver"] = <<Entry(NameA, "K1"), Entry(NameB, "K1"), Entry(NameC, "K1")>>]
    /\ dependencies \in DepMaps(ResolveKeys, ResolveDepStrings, MaxEdges)
    /\ target = <<>>
    /\ resolved = NotCalled
    /\ InitEngine

\* one call of _resolve_dependencies(layer, name) with visited=None
Resolve(layer, name) ==
    /\ target' = <<layer, name>>
    /\ resolved' = [called |-> TRUE] @@ _resolve_dependencies(layer, name, {})
    /\ UNCHANGED <<callVars, ckptVars, regVars, storeVars, execVars>>

NextResolve ==
    \E layer \in {"silver", "bronze"}, name \in {NameA, NameB, NameC} : Resolve(layer, name)

SpecResolve == InitResolve /\ [][NextResolve]_vars

-----------------------------------------------------------------------------
(* Runs of execute_with_dependencies *)

\* bronze.a, silver.a and silver.b are registered; bronze.b and silver.c are not
ChainPipelines ==
    [EmptyPipelines EXCEPT !["bronze"] = <<Entry(NameA, "K1")>>,
                           !["silver"] = <<Entry(NameA, "K1"), Entry(NameB, "K2")>>]

ChainKeys == {FullName("bronze", NameA), FullName("silver", NameA), FullName("silver", NameB)}

ChainDepStrings == ChainKeys \cup {FullName("bronze", NameB), <<"silver_v2", "a">>}

InitDeps ==
    /\ pipelines = ChainPipelines
    /\ dependencies \in DepMaps(ChainKeys, ChainDepStrings, MaxChainEdges)
    /\ target = <<>>
    /\ resolved = NotCalled
    /\ InitEngine

NextDeps ==
    \/ \E name \in {NameA, NameB, NameC}, force \in BOOLEAN : run_silver_pipeline(name, force)
    \/ \E layer \in {"bronze", "silver"}, name \in {NameA, NameB}, force \in BOOLEAN :
            execute_with_dependencies(layer, name, force)
    \/ WithDependenciesNext
    \/ \E outcome \in Outcomes : PipelineRun(outcome)
    \/ WithDependenciesAfter
    \/ WithDependenciesReturn

SpecDeps == InitDeps /\ [][NextDeps]_vars

-----------------------------------------------------------------------------
(* Runs of execute_full_pipeline *)

\* the registration orders of up to MaxPipelines pipelines of one layer
LayerOrders == {[i \in DOMAIN s |-> Entry(s[i], "K1")] : s \in DepLists({NameA, NameB, NameC}, MaxPipelines)}

\* register() stores a dependency list for every registered pipeline: a
\* silver pipeline depends on the bronze pipeline of its name
DefaultDependencies(registry) ==
    [key \in {FullName(l, registry[l][i].name) : l \in {"bronze"}, i \in 1..Len(registry["bronze"])}
             \cup {FullName("silver", registry["silver"][i].name) : i \in 1..Len(registry["silver"])}
        |-> IF key[1] = "silver" THEN <<FullName("bronze", Tail(key))>> ELSE <<>>]

InitFull ==
    /\ \E bronze_order \in LayerOrders, silver_order \in LayerOrders :
            /\ pipelines = [EmptyPipelines EXCEPT !["bronze"] = bronze_order, !["silver"] = silver_order]
            /\ dependencies = DefaultDependencies(
                    [EmptyPipelines EXCEPT !["bronze"] = bronze_order, !["silver"] = silver_order])
    /\ target = <<>>
    /\ resolved = NotCalled
    /\ InitEngine

NextFull ==
    \/ \E bronze_only, silver_only, force \in BOOLEAN :
            execute_full_pipeline(bronze_only, silver_only, force)
    \/ FullPipelineBronze
    \/ FullPipelineSilver
    \/ \E outcome \in Outcomes : PipelineRun(outcome)
    \/ FullPipelineAfter
    \/ FullPipelineFinal

SpecFull == InitFull /\ [][NextFull]_vars

-----------------------------------------------------------------------------
(* Direct calls of execute_pipeline, one after the other *)

\* a run_id and a job_id chosen by the caller
ClientRunId == 100
ClientJobId == 200

InitRuns ==
    /\ pipelines = ChainPipelines
    /\ dependencies = EmptyMap
    /\ target = <<>>
    /\ resolved = NotCalled
    /\ InitEngine

\* bronze.a is registered, bronze.b is not; run_id is left out, chosen
\* freshly by the caller, or one that is in the history already
NextRuns ==
    \/ \E name \in {NameA, NameB}, force \in {FALSE},
          run_id \in {NoId, ClientRunId} \cup DOMAIN execution_history,
          job_id \in {NoId, ClientJobId} :
            ExecutePipeline("bronze", name, force, run_id, job_id)
    \/ \E outcome \in Outcomes : PipelineRun(outcome)

SpecRuns == InitRuns /\ [][NextRuns]_vars

-----------------------------------------------------------------------------
(* Orchestration requests of both kinds, one at a time *)

InitOrchestration == InitDeps \/ InitFull

NextOrchestration ==
    \/ \E name \in {NameA, NameB, NameC}, force \in BOOLEAN : run_silver_pipeline(name, force)
    \/ \E layer \in {"bronze", "silver"}, name \in {NameA, NameB}, force \in BOOLEAN :
            execute_with_dependencies(layer, name, force)
    \/ WithDependenciesNext
    \/ WithDependenciesAfter
    \/ WithDependenciesReturn
    \/ \E bronze_only, silver_only, force \in BOOLEAN :
            execute_full_pipeline(bronze_only, silver_only, force)
    \/ FullPipelineBronze
    \/ FullPipelineSilver
    \/ FullPipelineAfter
    \/ FullPipelineFinal
    \/ \E outcome \in Outcomes : PipelineRun(outcome)

SpecOrchestration == InitOrchestration /\ [][NextOrchestration]_vars

-----------------------------------------------------------------------------
(* Direct calls of the checkpoint manager *)

Files == {ObjectNames[i] : i \in 1..MaxFiles}

\* candidate lists, repetitions and any order included
CandidateLists == UNION {[1..k -> Files] : k \in 0..MaxCandidates}

InitStore ==
    /\ pipelines = EmptyPipelines
    /\ dependencies = EmptyMap
    /\ target = <<>>
    /\ resolved = NotCalled
    /\ InitEngine

NextStore ==
    \/ GetCheckpointManager
    \/ \E name \in BronzeNames, file_path \in Files :
            MarkFileProcessed(name, file_path, _compute_file_hash(file_path),
                              RowsOf(file_path), "success")
    \/ \E name \in BronzeNames, file_path \in Files :
            MarkFileProcessed(name, file_path, <<>>, 0, "failed")
    \/ \E name \in BronzeNames : ClearCheckpoints(name)
    \/ \E name \in BronzeNames, all_files \in CandidateLists : GetNewFiles(name, all_files)

SpecStore == InitStore /\ [][NextStore]_vars

\* the calls that write the checkpoint table, without the reads
NextMarks ==
    \/ GetCheckpointManager
    \/ \E name \in BronzeNames, file_path \in Files :
            MarkFileProcessed(name, file_path, _compute_file_hash(file_path),
                              RowsOf(file_path), "success")
    \/ \E name \in BronzeNames, file_path \in Files :
            MarkFileProcessed(name, file_path, <<>>, 0, "failed")
    \/ \E name \in BronzeNames : ClearCheckpoints(name)

SpecMarks == InitStore /\ [][NextMarks]_vars

\* mark_file_processed calls of one thread between the read and the write
\* of a clear_checkpoints call of another
NextClearRace ==
    \/ GetCheckpointManager
    \/ \E name \in BronzeNames, file_path \in Files :
            MarkFileProcessed(name, file_path, _compute_file_hash(file_path),
                              RowsOf(file_path), "success")
    \/ \E name \in BronzeNames : ClearRead(name)
    \/ ClearWrite

SpecClearRace == InitStore /\ [][NextClearRace]_vars

-----------------------------------------------------------------------------
(* Sequences of register calls on an empty registry *)

\* the dependency arguments: None, [], one string, two strings
RegisterDeps ==
    {NoList, <<>>, <<FullName("bronze", NameA)>>,
     <<FullName("bronze", NameA), FullName("bronze", NameB)>>}

NextRegistry ==
    \E layer \in {"bronze", "silver"}, name \in {NameA, NameB}, pipeline_class \in Classes,
       deps \in RegisterDeps :
            Register(layer, name, pipeline_class, deps)

SpecRegistry == InitStore /\ [][NextRegistry]_vars

-----------------------------------------------------------------------------
(* Sequences of bronze runs: one run at a time *)

SourceFiles == {ObjectNames[i] : i \in 1..MaxSourceFiles}

\* the thread that runs while no other does
FirstWorker == CHOOSE w \in Workers : \A v \in Workers : w <= v

NextBronze ==
    \/ \E name \in BronzeNames, file_path \in SourceFiles : Upload(name, file_path)
    \/ \E name \in BronzeNames, force \in BOOLEAN : BronzeRun(FirstWorker, name, force)
    \/ \E readable \in BOOLEAN : BronzeFile(FirstWorker, readable)
    \/ BronzeReturn(FirstWorker)

SpecBronze == InitStore /\ [][NextBronze]_vars

\* runs with force=false in every worker thread: a request starts a run
\* while the run of another request is between two of its steps
NextRace ==
    \/ \E name \in BronzeNames, file_path \in SourceFiles : Upload(name, file_path)
    \/ \E w \in Workers, name \in BronzeNames : BronzeRun(w, name, FALSE)
    \/ \E w \in Workers, readable \in BOOLEAN : BronzeFile(w, readable)
    \/ \E w \in Workers : BronzeReturn(w)

SpecRace == InitStore /\ [][NextRace]_vars

-----------------------------------------------------------------------------
(* Sequences of direct job manager calls *)

JobIds == 1..MaxJobs

\* an optional count: None or 0..MaxTasks
OptionalCounts == {NoCount} \cup 0..MaxTasks

NextJobs ==
    \/ \E total_tasks \in 0..MaxTasks : CreateJob(<<"job">>, total_tasks)
    \/ \E job_id \in JobIds, status \in {None, "running"},
          total_tasks \in OptionalCounts, completed_tasks \in OptionalCounts,
          failed_tasks \in {NoCount, 1} :
            UpdateJobProgress(job_id, status, total_tasks, completed_tasks, failed_tasks)

SpecJobs == InitStore /\ [][NextJobs]_vars

-----------------------------------------------------------------------------
(* Runs of execute_full_pipeline with cancel requests *)

NextCancel ==
    \/ NextFull
    \/ \E job_id \in JobIds : cancel_job(job_id)

SpecCancel == InitFull /\ [][NextCancel]_vars

-----------------------------------------------------------------------------
(* The dependency graph, read off the registry without running the resolver *)

DepStringsOf(node) == {get_dependencies(node[1], node[2])[i] :
                            i \in 1..Len(get_dependencies(node[1], node[2]))}

\* the pipelines that the dependency strings of `node` name
Succ(node) == {<<SplitLayer(d), SplitName(d)>> : d \in {x \in DepStringsOf(node) : HasDot(x)}}

RECURSIVE ReachFrom(_)
ReachFrom(nodes) ==
    LET more == nodes \cup UNION {Succ(n) : n \in nodes}
    IN  IF more = nodes THEN nodes ELSE ReachFrom(more)

Reach(node) == ReachFrom({node})

Acyclic(node) == \A n \in Reach(node) : n \notin ReachFrom(Succ(n))

\* every dependency string met from `node` that has a dot names a layer of PipelineLayer
LayersKnown(node) ==
    \A n \in Reach(node) : \A d \in DepStringsOf(n) : HasDot(d) => SplitLayer(d) \in PipelineLayer

Positions(order, item) == {i \in 1..Len(order) : order[i] = item}

ExactlyOnce(order, items) ==
    /\ \A item \in items : Cardinality(Positions(order, item)) = 1
    /\ \A i \in 1..Len(order) : order[i] \in items

Before(order, x, y) == \E i \in Positions(order, x) : \A j \in Positions(order, y) : i < j

-----------------------------------------------------------------------------
(* C1 *)

\* C1 (as stated): whenever the dependency graph reachable from the target has
\* no cycle, _resolve_dependencies does not raise, lists every reachable
\* pipeline exactly once, puts every declared layer.name dependency of a
\* pipeline before that pipeline, and ends with the target.
C1_AsStated ==
    (resolved.called /\ Acyclic(target)) =>
        /\ ~resolved.raised
        /\ ExactlyOnce(resolved.value, Reach(target))
        /\ \A n \in Reach(target) : \A d \in DepStringsOf(n) :
                HasDot(d) => Before(resolved.value, <<SplitLayer(d), SplitName(d)>>, n)
        /\ Len(resolved.value) >= 1
        /\ resolved.value[Len(resolved.value)] = target

\* C1 (amended): whenever the graph reachable from the target has no cycle and
\* every layer.name dependency string met from the target names a layer of
\* PipelineLayer (bronze, silver, gold), the resolver does not raise, lists
\* every reachable pipeline exactly once, puts every declared layer.name
\* dependency before the pipeline that declares it, and ends with the target.
C1_ResolveOrder ==
    (resolved.called /\ Acyclic(target) /\ LayersKnown(target)) =>
        /\ ~resolved.raised
        /\ ExactlyOnce(resolved.value, Reach(target))
        /\ \A n \in Reach(target) : \A d \in DepStringsOf(n) :
                HasDot(d) => Before(resolved.value, <<SplitLayer(d), SplitName(d)>>, n)
        /\ Len(resolved.value) >= 1
        /\ resolved.value[Len(resolved.value)] = target

\* a diamond was resolved: four pipelines, one of them reached along two paths
C1_Witness ==
    /\ resolved.called
    /\ Acyclic(target)
    /\ LayersKnown(target)
    /\ Len(resolved.value) = 4
    /\ \E n \in Reach(target) : \E p, q \in Reach(target) :
            p # q /\ n \in Succ(p) /\ n \in Succ(q) /\ p # target /\ q # target

-----------------------------------------------------------------------------
(* Readings of the executor's records *)

Runs == DOMAIN execution_history

RunsOfLayer(layer) == {r \in Runs : execution_history[r].layer = layer}

\* the position of run r among the runs of its layer, in the order they were started
RankInLayer(r) == Cardinality({q \in RunsOfLayer(execution_history[r].layer) : q <= r})

TerminalRuns(status) == {r \in Runs : execution_history[r].status = status}

InWithDependencies == call.op = "execute_with_dependencies"

InFullPipeline == call.op = "execute_full_pipeline"

-----------------------------------------------------------------------------
(* C2 *)

\* C2: when a dependency cycle is reachable from the target,
\* execute_with_dependencies raises out of the resolution, and no pipeline
\* is instantiated or run, no task document is written and the execution
\* history stays empty.
C2_CycleRaisesFirst ==
    (InWithDependencies /\ ~Acyclic(<<call.layer, call.name>>)) =>
        /\ call.pc = "raised"
        /\ call.error.type = "ValueError"
        /\ invoked = <<>>
        /\ DOMAIN tasks = {}
        /\ task_writes = <<>>
        /\ Runs = {}

\* run_silver_pipeline met a cycle of two pipelines below its job
C2_Witness ==
    /\ InWithDependencies
    /\ call.job_id # NoId
    /\ call.pc = "raised"
    /\ call.error.msg = "Circular dependency detected"
    /\ <<call.layer, call.name>> \notin Succ(<<call.layer, call.name>>)

-----------------------------------------------------------------------------
(* C3 *)

\* C3: execute_with_dependencies executes the resolved order one pipeline at
\* a time and stops at the first failed state: the returned states are a
\* prefix of the order, only the last of them can be failed, nothing is
\* started after a failed state, and the pipelines after it have no task
\* document, no history entry and were never instantiated.
C3_FailFast ==
    InWithDependencies =>
        /\ \A r \in TerminalRuns("failed") : \A q \in Runs : q <= r
        /\ Len(call.results) <= Len(call.order)
        /\ \A k \in 1..Len(call.results) :
                /\ call.results[k] \in Runs
                /\ <<execution_history[call.results[k]].layer,
                     execution_history[call.results[k]].pipeline_name>> = call.order[k]
                /\ k < Len(call.results) => StatusOf(call.results[k]) = "success"
        /\ call.pc \in {"returned", "done"} =>
                /\ Len(call.results) >= 1
                /\ Len(call.results) < Len(call.order) =>
                        StatusOf(call.results[Len(call.results)]) = "failed"
                /\ Runs = {call.results[k] : k \in 1..Len(call.results)}
                /\ DOMAIN tasks = {<<call.job_id, r>> : r \in IF call.job_id = NoId THEN {} ELSE Runs}
                /\ \A j \in 1..Len(invoked) : invoked[j].run_id \in Runs

\* the order [A, B, C] where B failed: two states are returned, C never ran
C3_Witness ==
    /\ InWithDependencies
    /\ call.pc = "done"
    /\ call.job_id # NoId
    /\ Len(call.order) = 3
    /\ Len(call.results) = 2
    /\ StatusOf(call.results[1]) = "success"
    /\ StatusOf(call.results[2]) = "failed"
    /\ Len(invoked) = 2

-----------------------------------------------------------------------------
(* C4 *)

RaisedInPipeline(entry) == entry.outcome.kind \in {"ctor_raise", "raise"}

\* C4: when the constructor or run(force) of a pipeline raised, the
\* execute_pipeline call returned: its state is failed, holds the text of
\* the exception as error and has completed_at set, and with a job_id the
\* task document is failed with the same error.
C4_ExceptionContained ==
    \A j \in 1..Len(invoked) :
        RaisedInPipeline(invoked[j]) =>
            /\ call.pc # "raised"
            /\ execution_history[invoked[j].run_id].status = "failed"
            /\ execution_history[invoked[j].run_id].error = invoked[j].outcome.text
            /\ execution_history[invoked[j].run_id].completed_at # NoTime
            /\ invoked[j].job_id # NoId =>
                    /\ <<invoked[j].job_id, invoked[j].run_id>> \in DOMAIN tasks
                    /\ tasks[<<invoked[j].job_id, invoked[j].run_id>>].status = "failed"
                    /\ tasks[<<invoked[j].job_id, invoked[j].run_id>>].error = invoked[j].outcome.text
                    /\ tasks[<<invoked[j].job_id, invoked[j].run_id>>].completed_at =
                            execution_history[invoked[j].run_id].completed_at

\* a constructor raised under a job, and run raised in the call after a success
C4_Witness ==
    /\ exec.pc = "returned"
    /\ exec.job_id # NoId
    /\ Len(invoked) = 2
    /\ invoked[1].outcome.kind = "return"
    /\ invoked[2].outcome.kind = "ctor_raise"
    /\ StatusOf(exec.run_id) = "failed"

-----------------------------------------------------------------------------
(* C5 *)

IsRead(event) == event.kind = "read"

-----------------------------------------------------------------------------
(* C6 *)

\* the table of the call holds a success entry of the pipeline for the file
HasSuccessEntry(table, pipeline_name, file_path) ==
    /\ table # NoTable
    /\ \E i \in DOMAIN table :
            /\ table[i].pipeline_name = pipeline_name
            /\ table[i].file_path = file_path
            /\ table[i].status = "success"

\* C6: get_new_files(p, candidates) returns the candidates, in input order,
\* that have no success entry of p in the table; entries of another status
\* or of another pipeline exclude nothing, and without any success entry the
\* whole candidate list comes back.
C6_NewFiles ==
    new_files.called =>
        /\ new_files.value =
                SelectSeq(new_files.all_files,
                          LAMBDA f : ~HasSuccessEntry(new_files.table, new_files.pipeline_name, f))
        /\ (\A f \in Files : ~HasSuccessEntry(new_files.table, new_files.pipeline_name, f)) =>
                new_files.value = new_files.all_files

\* get_new_files(a, [f1, f2, f3]) returned [f2, f3] after f1 was marked success
\* and f2 was marked failed for a
C6_Witness ==
    /\ new_files.called
    /\ new_files.pipeline_name = NameA
    /\ new_files.all_files = <<"f1", "f2", "f3">>
    /\ new_files.value = <<"f2", "f3">>
    /\ \E i \in DOMAIN new_files.table :
            /\ new_files.table[i].pipeline_name = NameA
            /\ new_files.table[i].file_path = "f2"
            /\ new_files.table[i].status = "failed"

-----------------------------------------------------------------------------
(* C7 *)

\* C7: when execute_full_pipeline has returned, the stored status of its job
\* is failed if an executed pipeline ended failed (and then failed_tasks > 0),
\* success otherwise, and completed_at is set.
C7_FinalJobStatus ==
    (InFullPipeline /\ call.pc = "done") =>
        /\ jobs[call.job_id].status =
                IF TerminalRuns("failed") # {} THEN "failed" ELSE "success"
        /\ (jobs[call.job_id].failed_tasks > 0) = (TerminalRuns("failed") # {})
        /\ jobs[call.job_id].completed_at # NoTime

\* a run that ended failed after a first pipeline succeeded
C7_Witness ==
    /\ InFullPipeline
    /\ call.pc = "done"
    /\ Len(call.results) = 2
    /\ StatusOf(call.results[2]) = "failed"
    /\ jobs[call.job_id].status = "failed"

-----------------------------------------------------------------------------
(* C8 *)

\* C8: in execute_full_pipeline every bronze execution is started before
\* every silver one, the executions of a layer follow the registration
\* order, and a silver pipeline is executed only if bronze_only is false and
\* no bronze execution of the run ended failed.
C8_LayerOrder ==
    InFullPipeline =>
        /\ \A b \in RunsOfLayer("bronze") : \A v \in RunsOfLayer("silver") : b < v
        /\ \A r \in Runs :
                /\ execution_history[r].layer \in {"bronze", "silver"}
                /\ RankInLayer(r) <= Len(pipelines[execution_history[r].layer])
                /\ execution_history[r].pipeline_name =
                        pipelines[execution_history[r].layer][RankInLayer(r)].name
        /\ RunsOfLayer("silver") # {} =>
                /\ ~call.bronze_only
                /\ \A b \in RunsOfLayer("bronze") : execution_history[b].status = "success"
        /\ RunsOfLayer("bronze") # {} => ~call.silver_only

\* two bronze and two silver pipelines ran; bronze.b was registered before bronze.a
C8_Witness ==
    /\ InFullPipeline
    /\ call.pc = "done"
    /\ Cardinality(RunsOfLayer("bronze")) = 2
    /\ Cardinality(RunsOfLayer("silver")) = 2
    /\ pipelines["bronze"][1].name = NameB
    /\ pipelines["bronze"][2].name = NameA

-----------------------------------------------------------------------------
(* C9 *)

\* C9: execute_full_pipeline stops at the first failed state: nothing is
\* started after it, in its layer or in a later one; and once the loop has
\* taken a returned state, the stored completed_tasks and failed_tasks count
\* the succeeded and the failed executions, the failing one included.
C9_FailFastProgress ==
    InFullPipeline =>
        /\ \A r \in TerminalRuns("failed") : \A q \in Runs : q <= r
        /\ exec.pc # "returned" =>
                /\ jobs[call.job_id].completed_tasks = Cardinality(TerminalRuns("success"))
                /\ jobs[call.job_id].failed_tasks = Cardinality(TerminalRuns("failed"))

\* the first of two bronze pipelines failed: the loop has stopped, one
\* failure is stored, and the second bronze pipeline and the silver layer never ran
C9_Witness ==
    /\ InFullPipeline
    /\ call.pc = "done"
    /\ ~call.silver_only
    /\ ~call.bronze_only
    /\ Len(pipelines["bronze"]) = 2
    /\ Len(pipelines["silver"]) >= 1
    /\ Len(call.results) = 1
    /\ jobs[call.job_id].failed_tasks = 1
    /\ jobs[call.job_id].completed_tasks = 0

-----------------------------------------------------------------------------
(* C10 *)

\* C10: the job of execute_full_pipeline has total_tasks = the number of
\* registered bronze pipelines unless silver_only, plus the number of
\* registered silver pipelines unless bronze_only, and the call created
\* exactly one job.
C10_TotalTasks ==
    InFullPipeline =>
        /\ DOMAIN jobs = {call.job_id}
        /\ jobs[call.job_id].total_tasks =
                (IF call.silver_only THEN 0 ELSE Cardinality(RegisteredNames("bronze")))
                + (IF call.bronze_only THEN 0 ELSE Cardinality(RegisteredNames("silver")))

\* silver_only with two bronze pipelines and one silver pipeline registered
C10_Witness ==
    /\ InFullPipeline
    /\ call.pc = "done"
    /\ call.silver_only
    /\ ~call.bronze_only
    /\ Cardinality(RegisteredNames("bronze")) = 2
    /\ Cardinality(RegisteredNames("silver")) = 1
    /\ jobs[call.job_id].total_tasks = 1

-----------------------------------------------------------------------------
(* C11 *)

\* two fractions <<numerator, denominator>> denote the same number
SameFraction(p, q) == p[1] * q[2] = q[1] * p[2]

\* C11 (as stated): after any sequence of update_job_progress calls, the
\* stored progress_percent of a job with a positive total_tasks equals the
\* stored completed_tasks / total_tasks * 100.
C11_ProgressDerived ==
    \A job_id \in DOMAIN jobs :
        jobs[job_id].total_tasks > 0 =>
            SameFraction(jobs[job_id].progress_percent,
                         Percent(jobs[job_id].completed_tasks, jobs[job_id].total_tasks))

-----------------------------------------------------------------------------
(* C12 *)

\* the total_tasks that a direct call divides by: the one passed, else the stored one
EffectiveTotal == IF progress_call.total_tasks # NoCount THEN progress_call.total_tasks
                  ELSE progress_call.before.total_tasks

WithCompletedTasks ==
    progress_call.called /\ progress_call.existed /\ progress_call.completed_tasks # NoCount

\* C12 (as stated): after update_job_progress was called with completed_tasks
\* while the effective total_tasks is 0, the stored progress_percent is 0,
\* whatever it was before.
C12_ZeroTotalGivesZero ==
    (WithCompletedTasks /\ EffectiveTotal = 0) =>
        SameFraction(jobs[progress_call.job_id].progress_percent, ZeroPercent)

-----------------------------------------------------------------------------
(* C13 *)

\* C13: after update_job_progress was called with completed_tasks = c, and
\* with t the total_tasks of the call if it passed one and the stored
\* total_tasks otherwise, t > 0, the stored progress_percent is c / t * 100.
C13_FreshestTotal ==
    (WithCompletedTasks /\ EffectiveTotal > 0) =>
        SameFraction(jobs[progress_call.job_id].progress_percent,
                     Percent(progress_call.completed_tasks, EffectiveTotal))

\* completed_tasks = 3 on a job with stored total_tasks = 6 gave 50
C13_Witness ==
    /\ WithCompletedTasks
    /\ progress_call.completed_tasks = 3
    /\ progress_call.total_tasks = NoCount
    /\ progress_call.before.total_tasks = 6
    /\ SameFraction(jobs[progress_call.job_id].progress_percent, <<50, 1>>)

-----------------------------------------------------------------------------
(* C14 *)

\* the task documents that were ever written
TaskKeys == {<<task_writes[i].job_id, task_writes[i].task_id>> : i \in DOMAIN task_writes}

\* the statuses persisted for one task document, in write order
StatusesOf(key) ==
    LET writes == SelectSeq(task_writes, LAMBDA w : <<w.job_id, w.task_id>> = key)
    IN  [i \in DOMAIN writes |-> writes[i].status]

IsPrefix(s, t) == Len(s) <= Len(t) /\ \A i \in DOMAIN s : s[i] = t[i]

RunningLifecycles == {<<"pending", "running", "success">>, <<"pending", "running", "failed">>}

\* the call that wrote the task of `key` has returned
CallReturned(key) == ~(exec.pc = "await_run" /\ exec.job_id = key[1] /\ exec.run_id = key[2])

-----------------------------------------------------------------------------
(* C15 *)

\* the job documents that were ever written
WrittenJobs == {job_writes[i].job_id : i \in DOMAIN job_writes}

\* the writes of one job document, in order
JobWritesOf(job_id) == SelectSeq(job_writes, LAMBDA w : w.job_id = job_id)

\* C15: a job driven by create_job and execute_full_pipeline is first
\* written as pending with completed_tasks = 0 and failed_tasks = 0, then
\* as running; it is running whenever execute_pipeline is active for it, so
\* no pipeline executes before the running write.  Every write before the
\* last leaves it running, the write that ends the call leaves it in one of
\* success and failed, and no write follows that one.
C15_JobLifecycle ==
    \A job_id \in WrittenJobs :
        LET w == JobWritesOf(job_id)
            n == Len(w)
        IN  /\ n >= 2
            /\ w[1].status = "pending" /\ w[1].completed_tasks = 0 /\ w[1].failed_tasks = 0
            /\ w[2].status = "running"
            /\ \A i \in 2..(n - 1) : w[i].status = "running"
            /\ jobs[job_id].status = w[n].status
            /\ (exec.pc # "idle" /\ exec.job_id = job_id) => jobs[job_id].status = "running"
            /\ IF call.job_id = job_id /\ call.pc = "done"
               THEN n >= 3 /\ w[n].status \in {"success", "failed"}
               ELSE w[n].status = "running"

\* a full run has ended: the job went pending, running, stayed running over
\* the progress writes of two pipelines and ended failed
C15_Witness ==
    /\ InFullPipeline
    /\ call.pc = "done"
    /\ LET w == JobWritesOf(call.job_id)
       IN  /\ Len(w) = 5
           /\ [i \in DOMAIN w |-> w[i].status]
                = <<"pending", "running", "running", "running", "failed">>

-----------------------------------------------------------------------------
(* C16 *)

\* C16: when a running job is asked to cancel, the request is answered
\* without an error and the job's status is cancelled after it; the tasks of
\* the job that were terminal keep their status and fields.
C16_CancelMarksCancelled ==
    (cancel_call.called /\ cancel_call.was_running)
        => /\ cancel_call.status_code = 200
           /\ cancel_call.status_after = "cancelled"
           /\ jobs[cancel_call.job_id].status = "cancelled"

-----------------------------------------------------------------------------
(* C17 *)

\* the runs of execute_pipeline whose (layer, name) is not registered
NotFoundRuns ==
    {r \in DOMAIN execution_history :
        get(execution_history[r].layer, execution_history[r].pipeline_name) = NoClass}

\* the task documents of one run
TasksOfRun(run_id) == {key \in DOMAIN tasks : key[2] = run_id}

\* the job_id that the execute_pipeline call of `run_id` was given, for the
\* runs of the orchestration call in progress
JobOfRun(run_id) ==
    IF exec.run_id = run_id THEN exec.job_id
    ELSE IF \E i \in DOMAIN call.results : call.results[i] = run_id THEN call.job_id
    ELSE NoId

\* C17: execute_pipeline for a (layer, name) that is not registered has
\* returned as soon as it was called: nothing was raised to the caller, no
\* constructor or run was invoked for the run, the state is failed with the
\* not-found error; with a job_id the job holds exactly one task for the
\* run, failed with the same error, and without one no task exists.
C17_NotFound ==
    \A r \in NotFoundRuns :
        /\ execution_history[r].status = "failed"
        /\ execution_history[r].error = "Pipeline not found"
        /\ exec.run_id = r => exec.pc = "returned"
        /\ \A j \in DOMAIN invoked : invoked[j].run_id # r
        /\ Cardinality(TasksOfRun(r)) <= 1
        /\ \A key \in TasksOfRun(r) :
                /\ tasks[key].status = "failed"
                /\ tasks[key].error = execution_history[r].error
                /\ tasks[key].pipeline_name = execution_history[r].pipeline_name
                /\ tasks[key].layer = execution_history[r].layer
        /\ (exec.run_id = r \/ \E i \in DOMAIN call.results : call.results[i] = r) =>
                TasksOfRun(r) = IF JobOfRun(r) = NoId THEN {} ELSE {<<JobOfRun(r), r>>}

\* an unregistered dependency was executed under a job, after a registered
\* one had run
C17_Witness ==
    /\ exec.pc = "returned"
    /\ exec.run_id \in NotFoundRuns
    /\ exec.job_id # NoId
    /\ TasksOfRun(exec.run_id) = {<<exec.job_id, exec.run_id>>}
    /\ Len(invoked) >= 1

-----------------------------------------------------------------------------
(* C18 *)

\* the invocations whose run returned a dict
ReturnedDict(entry) == entry.outcome.kind = "return" /\ entry.outcome.result.is_dict

\* C18: when run returned a dict, the state is failed for the result
\* statuses "failed" and "partial" and success for any other or missing
\* status; with a job_id the task has the same status and the result's
\* message ("" when the result has none).  A partial result ends the
\* orchestration like a failed one: no pipeline is started after it.
C18_StatusMapping ==
    \A j \in DOMAIN invoked :
        ReturnedDict(invoked[j]) =>
            LET result == invoked[j].outcome.result
                run_id == invoked[j].run_id
                expected == IF result.status \in {"failed", "partial"} THEN "failed"
                            ELSE "success"
            IN  /\ execution_history[run_id].status = expected
                /\ execution_history[run_id].result = result
                /\ invoked[j].job_id # NoId =>
                        /\ tasks[<<invoked[j].job_id, run_id>>].status = expected
                        /\ tasks[<<invoked[j].job_id, run_id>>].message =
                                (IF result.message = Missing THEN "" ELSE result.message)
                /\ (InWithDependencies /\ result.status \in {"failed", "partial"}) =>
                        /\ \A q \in Runs : q <= run_id
                        /\ \A k \in DOMAIN invoked : k <= j

\* the second of three pipelines returned a partial result under a job: its
\* task is failed with the result's message and the third never ran
C18_Witness ==
    /\ InWithDependencies
    /\ call.pc = "done"
    /\ call.job_id # NoId
    /\ Len(call.order) = 3
    /\ Len(invoked) = 2
    /\ ReturnedDict(invoked[2])
    /\ invoked[2].outcome.result.status = "partial"
    /\ tasks[<<call.job_id, invoked[2].run_id>>].status = "failed"
    /\ tasks[<<call.job_id, invoked[2].run_id>>].message = "Processed 1 files with 1 errors"
    /\ ReturnedDict(invoked[1])
    /\ invoked[1].outcome.result.status = Missing
    /\ StatusOf(invoked[1].run_id) = "success"

-----------------------------------------------------------------------------
(* C19 *)

\* C19: every state that execute_pipeline returned as failed has an error
\* that is neither None nor the empty string.
C19_FailedHasError ==
    \A r \in DOMAIN execution_history :
        (execution_history[r].status = "failed" /\ ~(exec.run_id = r /\ exec.pc = "await_run"))
            => execution_history[r].error \notin {None, ""}

-----------------------------------------------------------------------------
(* C20 *)

-----------------------------------------------------------------------------
(* C21 *)

\* the entries of a table that belong to the pipelines other than `pipeline_name`
EntriesOfOthers(table, pipeline_name) ==
    SelectSeq(table, LAMBDA e : e.pipeline_name # pipeline_name)

\* C21: on every checkpoint table the program reaches, clear_checkpoints(p)
\* gives a table without any entry of p in which the entries of every other
\* pipeline are the ones from before, unchanged and in their order; after
\* it get_new_files(p, files) is files, and get_new_files(q, files) of every
\* other pipeline q is what it was before the clear.
C21_ClearOnePipeline ==
    \A p \in BronzeNames :
        LET after == clear_checkpoints(checkpoints, p)
        IN  /\ table_exists(checkpoints) =>
                    /\ \A i \in DOMAIN after : after[i].pipeline_name # p
                    /\ after = EntriesOfOthers(checkpoints, p)
                    /\ \A i \in DOMAIN checkpoints :
                            checkpoints[i].pipeline_name # p =>
                                \E k \in DOMAIN after : after[k] = checkpoints[i]
            /\ \A all_files \in CandidateLists :
                    /\ get_new_files(after, p, all_files) = all_files
                    /\ \A q \in BronzeNames \ {p} :
                            get_new_files(after, q, all_files)
                                = get_new_files(checkpoints, q, all_files)

\* two files were marked, for two pipelines, and the younger entry was
\* cleared: the table holds the _init row and the older success entry, whose
\* file stays processed for its pipeline
C21_Witness ==
    /\ table_exists(checkpoints)
    /\ now = 3
    /\ Len(checkpoints) = 2
    /\ checkpoints[2].status = "success"
    /\ checkpoints[2].processed_at = 2
    /\ get_processed_files(checkpoints, checkpoints[2].pipeline_name) = {checkpoints[2].file_path}
    /\ \A p \in BronzeNames \ {checkpoints[2].pipeline_name} : get_processed_files(checkpoints, p) = {}

-----------------------------------------------------------------------------
(* C22 *)

RunEvents == {i \in DOMAIN file_events : file_events[i].kind = "run"}

\* the latest run and the run of the same pipeline before it
LastRun == CHOOSE j \in RunEvents : \A i \in RunEvents : i <= j

PreviousRun ==
    CHOOSE j \in RunEvents :
        /\ j < LastRun
        /\ file_events[j].name = file_events[LastRun].name
        /\ \A i \in RunEvents :
                (i < LastRun /\ file_events[i].name = file_events[LastRun].name) => i <= j

\* the file reads of the run that started at event j
ReadsOfRun(j) ==
    {k \in DOMAIN file_events :
        /\ k > j
        /\ IsRead(file_events[k])
        /\ \A i \in RunEvents : i <= j \/ i > k}

\* the latest run has returned and was the second of two runs of one
\* pipeline, both with force=false, that listed the same files
TwiceUnchanged ==
    /\ RunEvents # {}
    /\ bronze[FirstWorker].pc = "returned"
    /\ \E j \in RunEvents : j < LastRun /\ file_events[j].name = file_events[LastRun].name
    /\ ~file_events[LastRun].force
    /\ ~file_events[PreviousRun].force
    /\ file_events[PreviousRun].all_files = file_events[LastRun].all_files

-----------------------------------------------------------------------------
(* C23 *)

\* the task writes of the job of the request in progress, in order
RequestTaskWrites == SelectSeq(task_writes, LAMBDA w : w.job_id = call.job_id)

\* the task_ids of the terminal task writes of the request, in order
TerminalTaskIds ==
    LET terminal == SelectSeq(RequestTaskWrites, LAMBDA w : w.status \in {"success", "failed"})
    IN  [i \in DOMAIN terminal |-> terminal[i].task_id]

\* the run_ids in the order in which execute_pipeline returned them
CompletionOrder ==
    call.results \o (IF exec.pc = "returned" THEN <<exec.run_id>> ELSE <<>>)

\* the progress writes of the job of an execute_full_pipeline request: the
\* writes after the creation and the running write, the final one excluded
ProgressWrites ==
    LET w == SelectSeq(job_writes, LAMBDA x : x.job_id = call.job_id)
    IN  SubSeq(w, 3, IF call.pc = "done" THEN Len(w) - 1 ELSE Len(w))

\* C23: within one orchestration request with a job, at most one Task of
\* the job is running; the first write of a Task (pending) comes only after
\* the Task written before it has got its terminal status, and no Task is
\* written again after another one was created; the terminal statuses are
\* written in the order in which the pipelines complete; and in
\* execute_full_pipeline the k-th progress write of the job counts k
\* finished pipelines and is made after the k-th terminal Task write and
\* before the next Task is created.
C23_Sequential ==
    (call.op # "idle" /\ call.job_id # NoId) =>
        LET tw == RequestTaskWrites
        IN  /\ Cardinality({key \in DOMAIN tasks :
                                key[1] = call.job_id /\ tasks[key].status = "running"}) <= 1
            /\ \A i \in 1..(Len(tw) - 1) :
                    tw[i + 1].task_id # tw[i].task_id =>
                        /\ tw[i].status \in {"success", "failed"}
                        /\ tw[i + 1].status = "pending"
                        /\ \A k \in 1..i : tw[k].task_id # tw[i + 1].task_id
            /\ TerminalTaskIds = CompletionOrder
            /\ InFullPipeline =>
                    /\ Len(ProgressWrites) = Len(call.results)
                    /\ \A k \in DOMAIN ProgressWrites :
                            ProgressWrites[k].completed_tasks + ProgressWrites[k].failed_tasks = k
                    /\ Len(TerminalTaskIds) \in {Len(ProgressWrites), Len(ProgressWrites) + 1}
                    /\ Cardinality({tw[i].task_id : i \in DOMAIN tw}) <= Len(ProgressWrites) + 1

\* a full run of two pipelines has ended: two Tasks were written one after
\* the other, each pending, running, terminal, with two progress writes
C23_Witness ==
    /\ InFullPipeline
    /\ call.pc = "done"
    /\ Len(call.results) = 2
    /\ Len(RequestTaskWrites) = 6
    /\ TerminalTaskIds = call.results
    /\ Len(ProgressWrites) = 2
    /\ ProgressWrites[2].completed_tasks = 2

-----------------------------------------------------------------------------
(* C24 *)

\* the register calls made for one key
RegistrationsOf(layer, name) ==
    {i \in DOMAIN registrations :
        registrations[i].layer = layer /\ registrations[i].name = name}

LastRegistration(layer, name) ==
    registrations[CHOOSE i \in RegistrationsOf(layer, name) :
                        \A k \in RegistrationsOf(layer, name) : k <= i]

\* C24: after any sequence of register calls, get and get_dependencies of a
\* key that was never registered give None and the empty list and
\* list_pipelines does not have it; for a registered key they give the
\* class and the dependency list ([] for None) of its most recent register
\* call, and list_pipelines of its layer has it exactly once.  The number
\* of tasks a full run counts is the number of distinct bronze and silver
\* keys registered.
C24_LastWriteWins ==
    /\ \A layer \in PipelineLayer, name \in {NameA, NameB, NameC} :
            IF RegistrationsOf(layer, name) = {}
            THEN /\ get(layer, name) = NoClass
                 /\ get_dependencies(layer, name) = <<>>
                 /\ \A i \in DOMAIN list_pipelines(layer) : list_pipelines(layer)[i] # name
            ELSE /\ get(layer, name) = LastRegistration(layer, name).pipeline_class
                 /\ get_dependencies(layer, name) =
                        (IF LastRegistration(layer, name).dependencies = NoList THEN <<>>
                         ELSE LastRegistration(layer, name).dependencies)
                 /\ Cardinality({i \in DOMAIN list_pipelines(layer) :
                                    list_pipelines(layer)[i] = name}) = 1
    /\ TotalTasks(FALSE, FALSE) =
            Cardinality({<<registrations[i].layer, registrations[i].name>> :
                            i \in DOMAIN registrations})

\* silver.a was registered, then bronze.a, then silver.a again with another
\* class and other dependencies: two pipelines are listed, the second class
\* and the second dependency list are the ones returned
C24_Witness ==
    /\ Len(registrations) = 3
    /\ registrations[1].layer = "silver" /\ registrations[1].name = NameA
    /\ registrations[1].pipeline_class = "K1"
    /\ registrations[1].dependencies = <<FullName("bronze", NameA)>>
    /\ registrations[2].layer = "bronze" /\ registrations[2].name = NameA
    /\ registrations[3].layer = "silver" /\ registrations[3].name = NameA
    /\ registrations[3].pipeline_class = "K2"
    /\ registrations[3].dependencies = NoList
    /\ get("silver", NameA) = "K2"
    /\ get_dependencies("silver", NameA) = <<>>
    /\ TotalTasks(FALSE, FALSE) = 2

-----------------------------------------------------------------------------
(* C25 *)

IsTerminal(state) == state.status \in {"success", "failed"}

\* C25: a state is in the history from the start of its execute_pipeline
\* call, is terminal once the call has returned, and from then on every
\* later step leaves it in the history under its run_id, unchanged.
C25_StateRetained ==
    /\ [](exec.pc # "idle" => exec.run_id \in DOMAIN execution_history)
    /\ [](exec.pc = "returned" => IsTerminal(execution_history[exec.run_id]))
    /\ [][\A r \in DOMAIN execution_history :
            IsTerminal(execution_history[r]) =>
                /\ r \in DOMAIN execution_history'
                /\ execution_history'[r] = execution_history[r]]_vars

-----------------------------------------------------------------------------
(* C26 *)

\* the success entries of one file of one pipeline in the checkpoint table
SuccessEntries(name, file_path) ==
    IF ~table_exists(checkpoints) THEN {}
    ELSE {i \in DOMAIN checkpoints :
            /\ checkpoints[i].pipeline_name = name
            /\ checkpoints[i].file_path = file_path
            /\ checkpoints[i].status = "success"}

\* the batches of one file in the target table of one pipeline
BatchesOf(name, file_path) ==
    IF ~table_exists(bronze_tables[name]) THEN {}
    ELSE {i \in DOMAIN bronze_tables[name] : bronze_tables[name][i].file_path = file_path}

\* C26: when the runs of a bronze pipeline all have force=false, in one
\* worker thread or in several at a time, every input file has at most one
\* success entry in the checkpoint table and at most one batch in the
\* target table.
C26_AtMostOnce ==
    \A name \in BronzeNames, file_path \in SourceFiles :
        /\ Cardinality(SuccessEntries(name, file_path)) <= 1
        /\ Cardinality(BatchesOf(name, file_path)) <= 1

-----------------------------------------------------------------------------
(* C27 *)

\* C27: the write of a clear_checkpoints(p) call leaves in the table every
\* entry of another pipeline that is there when the write is made, the
\* entries that mark_file_processed appended after the read of the clear
\* included.
C27_MarkSurvivesClear ==
    [][(clear_frame.pc = "read" /\ clear_frame'.pc = "idle") =>
            \A i \in DOMAIN checkpoints :
                checkpoints[i].pipeline_name # clear_frame.pipeline_name =>
                    \E k \in DOMAIN checkpoints' : checkpoints'[k] = checkpoints[i]]_vars

-----------------------------------------------------------------------------
(* C28 *)

\* the places of the resolved order, the target's excluded, whose pipeline
\* has no registered runnable
MissingDependencies ==
    {k \in 1..(Len(call.order) - 1) : call.order[k][2] \notin RegisteredNames(call.order[k][1])}

FirstMissing == CHOOSE m \in MissingDependencies : \A k \in MissingDependencies : m <= k

\* the call has a resolved order with a missing dependency and has returned
ReturnedWithMissing ==
    /\ InWithDependencies
    /\ call.pc \in {"returned", "done"}
    /\ MissingDependencies # {}

\* nothing ordered from place k on was instantiated or run
NeverInvokedFrom(k) ==
    \A j \in DOMAIN invoked : \A i \in k..Len(call.order) :
        <<invoked[j].layer, invoked[j].name>> # call.order[i]

\* C28 (as stated): with a missing dependency in the resolved order the
\* call returns a list whose last element is the failed not-found state of
\* the first missing dependency, and the runnables of the target and of
\* everything ordered after the missing dependency are never invoked.
C28_AsStated ==
    ReturnedWithMissing =>
        /\ Len(call.results) = FirstMissing
        /\ StatusOf(call.results[FirstMissing]) = "failed"
        /\ execution_history[call.results[FirstMissing]].error = "Pipeline not found"
        /\ NeverInvokedFrom(FirstMissing)

\* C28 (amended): the call does not raise and the list it returns ends at
\* or before the first missing dependency.  When every pipeline ordered
\* before that dependency succeeded, the list ends with its failed
\* not-found state; otherwise it ends with the failed state of the first
\* pipeline that failed.  In both cases the runnables of the missing
\* dependency, of the target and of everything ordered after are never invoked.
C28_MissingDependency ==
    /\ (InWithDependencies /\ call.pc = "raised") => call.order = <<>>
    /\ ReturnedWithMissing =>
        LET n == Len(call.results)
        IN  /\ n >= 1 /\ n <= FirstMissing
            /\ StatusOf(call.results[n]) = "failed"
            /\ \A k \in 1..(n - 1) : StatusOf(call.results[k]) = "success"
            /\ n = FirstMissing =>
                    /\ execution_history[call.results[n]].error = "Pipeline not found"
                    /\ <<execution_history[call.results[n]].layer,
                         execution_history[call.results[n]].pipeline_name>> = call.order[n]
            /\ n < FirstMissing =>
                    \E j \in DOMAIN invoked : invoked[j].run_id = call.results[n]
            /\ NeverInvokedFrom(FirstMissing)

\* bronze.a ran with success, the unregistered bronze.b came next and gave
\* the not-found state that ends the list; the target was never invoked
C28_Witness ==
    /\ ReturnedWithMissing
    /\ call.job_id # NoId
    /\ Len(call.order) = 3
    /\ FirstMissing = 2
    /\ Len(call.results) = 2
    /\ StatusOf(call.results[1]) = "success"
    /\ execution_history[call.results[2]].error = "Pipeline not found"
    /\ Len(invoked) = 1

-----------------------------------------------------------------------------
(* C29 *)

\* the Task records of the job of the request that are in a terminal status
TerminalTasks ==
    {key \in DOMAIN tasks : key[1] = call.job_id /\ tasks[key].status \in {"success", "failed"}}

\* C29 (as stated): in every state of execute_full_pipeline the stored
\* failed_tasks is at most 1, completed_tasks + failed_tasks is the number
\* of Task records in a terminal status and is at most total_tasks.
C29_AsStated ==
    InFullPipeline =>
        /\ jobs[call.job_id].failed_tasks <= 1
        /\ jobs[call.job_id].completed_tasks + jobs[call.job_id].failed_tasks
                = Cardinality(TerminalTasks)
        /\ jobs[call.job_id].completed_tasks + jobs[call.job_id].failed_tasks
                <= jobs[call.job_id].total_tasks

\* C29 (amended): failed_tasks is at most 1; completed_tasks + failed_tasks
\* is the number of states the loop has taken, is at most total_tasks, and
\* is the number of terminal Task records except between the terminal write
\* of a Task and the progress write that follows it, where it is one less;
\* a run that ends without a failure has completed_tasks = total_tasks,
\* status success and, with total_tasks > 0, progress_percent = 100.
C29_CountersConsistent ==
    InFullPipeline =>
        LET job == jobs[call.job_id]
            counted == job.completed_tasks + job.failed_tasks
        IN  /\ job.failed_tasks <= 1
            /\ counted = Len(call.results)
            /\ counted <= job.total_tasks
            /\ Cardinality(TerminalTasks) <= job.total_tasks
            /\ Cardinality(TerminalTasks) = (IF exec.pc = "returned" THEN counted + 1 ELSE counted)
            /\ (call.pc = "done" /\ job.failed_tasks = 0) =>
                    /\ job.completed_tasks = job.total_tasks
                    /\ job.status = "success"
                    /\ job.total_tasks > 0 => SameFraction(job.progress_percent, <<100, 1>>)

\* a run of two bronze pipelines and one silver pipeline has ended without
\* a failure: three of three tasks are completed, the progress is 100
C29_Witness ==
    /\ InFullPipeline
    /\ call.pc = "done"
    /\ jobs[call.job_id].total_tasks = 3
    /\ jobs[call.job_id].completed_tasks = 3
    /\ jobs[call.job_id].failed_tasks = 0
    /\ jobs[call.job_id].progress_percent = <<300, 3>>
    /\ Cardinality(TerminalTasks) = 3

-----------------------------------------------------------------------------
(* C30 *)

\* the Tasks of the job of the returned call whose task_id is `run_id`
TasksWithId(job_id, run_id) ==
    {key \in DOMAIN tasks : key[1] = job_id /\ tasks[key].task_id = run_id}

\* C30: once an execute_pipeline call made with a job_id has returned, the
\* job has exactly one Task whose task_id is the run_id of the returned
\* state; that Task is success iff the state is success, failed iff the
\* state is failed, and has the completed_at of the state when the state
\* has one.
C30_TaskMirrorsState ==
    (exec.pc = "returned" /\ exec.job_id # NoId) =>
        LET state == execution_history[exec.run_id]
            mine == TasksWithId(exec.job_id, state.run_id)
        IN  /\ Cardinality(mine) = 1
            /\ \A key \in mine :
                /\ tasks[key].status = "success" <=> state.status = "success"
                /\ tasks[key].status = "failed" <=> state.status = "failed"
                /\ state.completed_at # NoTime => tasks[key].completed_at = state.completed_at

\* a call with the client's run_id and job_id has returned a success state
\* that has a completed_at, after an earlier call with the same run_id and
\* job_id had ended failed
C30_Witness ==
    /\ exec.pc = "returned"
    /\ exec.job_id = ClientJobId
    /\ exec.run_id = ClientRunId
    /\ execution_history[ClientRunId].status = "success"
    /\ execution_history[ClientRunId].completed_at # NoTime
    /\ TasksWithId(ClientJobId, ClientRunId) = {<<ClientJobId, ClientRunId>>}
    /\ tasks[<<ClientJobId, ClientRunId>>].completed_at = execution_history[ClientRunId].completed_at
    /\ \E i \in DOMAIN task_writes :
            /\ task_writes[i].job_id = ClientJobId
            /\ task_writes[i].task_id = ClientRunId
            /\ task_writes[i].status = "failed"

====
